---- MODULE Spec2Model ----
(***************************************************************************)
(* Model of the MegaMesh node firmware (src/src/firmware/                  *)
(* esp32_lora_unified.ino): mesh frame codec, dedup cache, peer table,     *)
(* radio bringup, persistence and the command dispatcher with its          *)
(* setup/run state machine.                                                *)
(*                                                                         *)
(* Conventions.  Byte buffers are sequences of integers 0..255.  A float   *)
(* of the configuration is kept in thousandths (1.8 V is 1800).  A command *)
(* line is the sequence of its blank-separated tokens after trim() and     *)
(* toLowerCase(): W(word), Num(number), Hex(number written with 0x) or     *)
(* B(bytes of free text).  Every                                           *)
(* firmware function is an operator from a machine record m (the globals   *)
(* of the sketch, the flash blobs and what the call has emitted so far) to *)
(* the machine record after the call; what the hardware answers during the *)
(* call (driver status codes, the random nonce, the cipher's return code)  *)
(* is the record env chosen by the action.                                 *)
(***************************************************************************)
EXTENDS Integers, Sequences, FiniteSets, TLC

VARIABLES
  fw,       \* the sketch's global variables (g_cfg, g_peers, g_meshKey, ...)
  nvs,      \* the Preferences namespace "lora": the blobs "cfg" and "wxcfg"
  clock,    \* millis()
  phase,    \* where the main task is: "boot", "inputs", "rx", "wx" of loop(),
            \* or the sub-loop of startConfigMode ("sub_boot", "sub_loop")
  blePhase, \* where the BLE callback task is: "idle", "cmd" or "sub"
  serial,   \* lines written by Serial.println during the last step
  ble,      \* lines notified on the BLE TX characteristics during the last step
  air,      \* frames handed to g_radio->transmit during the last step
  probe,    \* what the last step did (calls counted, command or frame handled)
  used,     \* inputs consumed so far, against the bounds below
  task,     \* the command each context is executing (SpecTasks)
  io        \* inputs and results of the codec (SpecCodec) and of the peer
            \* table calls (SpecPeers)

vars ==
  <<fw, nvs, clock, phase, blePhase, serial, ble, air, probe, used, task, io>>

(***************************************************************************)
(* Bounds of the model (not program constants).                            *)
(***************************************************************************)
\* longest payload whose bytes are enumerated; 120 and 121 are added as such
MaxShortLen == 1
\* command lines the node reads after power-on
MaxCmds == 2
\* frames the radio delivers after power-on
MaxRx == 2
\* times the node starts (power-on and restarts)
MaxBoots == 2
\* clock ticks of TickMs the model lets pass
MaxTicks == 1
\* updatePeer calls of the peer-table specification
MaxPeerCalls == 19
\* begin calls past the last one bringup makes at which the driver may
\* start to answer
MaxBeyond == 1
\* calls of isDuplicate on the ring alone: the ring is gone round once and
\* three calls more
MaxDupCalls == 27

(***************************************************************************)
(* Program constants.                                                      *)
(***************************************************************************)
MAX_PEERS == 16
MAX_SENSORS == 6
DUP_CACHE_SIZE == 24
CFG_MAGIC == 1280266817
WX_MAGIC == 1465406546
MaxPayload == 120
PlainBufSize == 120
HeaderLen == 21
MinFrameLen == 22
RxBufSize == 256
BroadcastId == 65535
CrcInit == 65535
CrcPoly == 4129
BleChunk == 180
PromptMs == 5000
MinWeatherMs == 500
DefaultWeatherMs == 5000
MyMac16 == 41394
RADIOLIB_ERR_NONE == 0
NoState == -999

(***************************************************************************)
(* Bytes and bit operations.                                               *)
(***************************************************************************)
Byte == 0..255

RECURSIVE BitXor(_, _, _)
BitXor(a, b, n) ==
  IF n = 0 THEN 0
  ELSE ((a + b) % 2) + 2 * BitXor(a \div 2, b \div 2, n - 1)

XorNib == [a \in 0..15, b \in 0..15 |-> BitXor(a, b, 4)]

Xor8(a, b) == 16 * XorNib[a \div 16, b \div 16] + XorNib[a % 16, b % 16]

Xor16(a, b) == 256 * Xor8(a \div 256, b \div 256) + Xor8(a % 256, b % 256)

Hi8(x) == (x \div 256) % 256
Lo8(x) == x % 256

SubSeqFrom(s, k) == SubSeq(s, k, Len(s))

\* the two halves of a 32-bit value in the wrong order
U32BytesSwapped(x) == <<x.lo \div 256, x.lo % 256, x.hi \div 256, x.hi % 256>>

\* the value x handed to what the code does next with it
Bind(x, F(_)) == F(x)

\* a shift that leaves the polynomial out
CrcShiftPlain(crc) == (crc * 2) % 65536

(***************************************************************************)
(* crc16_ccitt: CRC-16/CCITT-FALSE, bit by bit as the source does.  The    *)
(* bytes are folded left to right; the fold is evaluated by halves only to *)
(* keep the evaluator's recursion shallow.                                 *)
(***************************************************************************)
\* one turn of the inner for-loop: shift left, xor the polynomial on carry
CrcShift(crc) ==
  IF crc >= 32768 THEN Xor16((crc * 2) % 65536, CrcPoly)
  ELSE (crc * 2) % 65536

RECURSIVE CrcBits(_, _)
CrcBits(crc, i) ==
  IF i = 0 THEN crc
  ELSE LET c == CrcShift(crc) IN IF c >= 0 THEN CrcBits(c, i - 1) ELSE c

\* the eight shifts of the inner loop applied to t << 8, for every byte t
CrcTop == [t \in Byte |-> CrcBits(t * 256, 8)]

\* one turn of the while-loop: crc ^= byte << 8, then eight shifts.  The
\* shifts move the low byte of the value up unchanged and xor into it what
\* they make of the high byte, so CrcBits(x, 8) is read from CrcTop.
CrcByte(crc, b) ==
  LET x == Xor16(crc, b * 256)
  IN Xor16((x % 256) * 256, CrcTop[x \div 256])

RECURSIVE CrcRange(_, _, _, _)
CrcRange(data, lo, hi, crc) ==
  IF lo > hi THEN crc
  ELSE IF lo = hi THEN CrcByte(crc, data[lo])
  ELSE LET mid == (lo + hi) \div 2
           left == CrcRange(data, lo, mid, crc)
       IN IF left >= 0 THEN CrcRange(data, mid + 1, hi, left) ELSE left

crc16_ccitt(data, len) == CrcRange(data, 1, len, CrcInit)

(***************************************************************************)
(* Big-endian integers of the wire format.                                 *)
(***************************************************************************)
U16Bytes(x) == <<Hi8(x), Lo8(x)>>
\* a uint32_t as its two 16-bit halves (the model's integers are narrower
\* than 32 bits unsigned)
Word32(hi, lo) == [hi |-> hi, lo |-> lo]
Inc32(x) ==
  IF x.lo = 65535 THEN Word32((x.hi + 1) % 65536, 0)
  ELSE Word32(x.hi, x.lo + 1)
U32Bytes(x) == U16Bytes(x.hi) \o U16Bytes(x.lo)
U16At(buf, k) == buf[k] * 256 + buf[k + 1]
U32At(buf, k) == Word32(U16At(buf, k), U16At(buf, k + 2))

(***************************************************************************)
(* Text helpers (Arduino String): ASCII bytes.                             *)
(***************************************************************************)
IsSpace(c) == c \in 9..13 \/ c = 32

RECURSIVE TrimLeft(_)
TrimLeft(s) ==
  IF s # <<>> /\ IsSpace(s[1]) THEN TrimLeft(Tail(s)) ELSE s

RECURSIVE TrimRight(_)
TrimRight(s) ==
  IF s # <<>> /\ IsSpace(s[Len(s)]) THEN TrimRight(SubSeq(s, 1, Len(s) - 1))
  ELSE s

Trim(s) == TrimRight(TrimLeft(s))

StartsWith(s, p) == Len(s) >= Len(p) /\ SubSeq(s, 1, Len(p)) = p

RECURSIVE DecStr(_)
DecStr(n) ==
  IF n < 10 THEN <<48 + n>> ELSE Append(DecStr(n \div 10), 48 + (n % 10))

\* toHexByte: two upper-case hex digits
HexDigit(n) == IF n < 10 THEN 48 + n ELSE 55 + n
toHexByte(b) == <<HexDigit((b \div 16) % 16), HexDigit(b % 16)>>

RECURSIVE HexOfBytes(_)
HexOfBytes(bs) ==
  IF bs = <<>> THEN <<>> ELSE toHexByte(bs[1]) \o HexOfBytes(Tail(bs))

\* the lambda nibble of parseHexKey16
Nibble(c) ==
  IF c \in 48..57 THEN c - 48
  ELSE IF c \in 97..102 THEN 10 + (c - 97)
  ELSE IF c \in 65..70 THEN 10 + (c - 65)
  ELSE -1

Txt_0x == <<48, 120>>
Txt_0X == <<48, 88>>
Txt_KEY == <<75, 69, 89, 58>>
Txt_KEY_OK == <<75, 69, 89, 95, 79, 75>>
Txt_NODE == <<78, 79, 68, 69, 58>>
Txt_DISCOVER == <<68, 73, 83, 67, 79, 86, 69, 82, 58>>
Txt_WX == <<87, 88, 58>>

\* the text after trim() and after an "0x" or "0X" prefix is dropped
HexBody(t) ==
  IF StartsWith(t, Txt_0x) \/ StartsWith(t, Txt_0X) THEN SubSeqFrom(t, 3)
  ELSE t

HexKey(s) ==
  IF Len(s) # 32 THEN [ok |-> FALSE, key |-> <<>>]
  ELSE IF \E i \in 1..32 : Nibble(s[i]) < 0
  THEN [ok |-> FALSE, key |-> <<>>]
  ELSE [ok |-> TRUE,
        key |-> [i \in 1..16 |->
                   Nibble(s[2 * i - 1]) * 16 + Nibble(s[2 * i])]]

parseHexKey16(inHex) == HexKey(HexBody(Trim(inHex)))

(***************************************************************************)
(* Frame codec: the layout written by sendMeshPacket and the checks and    *)
(* field reads at the head of handleMeshFrame.                             *)
(***************************************************************************)
FrameMagic == <<77, 88>>
FrameVersion == 1
PlainTypes == {1, 2, 48, 49}

FrameHead(type, src, dst, ctr, nonce, enc) ==
  FrameMagic \o <<FrameVersion, type>> \o U16Bytes(src) \o U16Bytes(dst)
    \o U32Bytes(ctr) \o nonce \o <<Len(enc)>> \o enc

\* a header and payload followed by their checksum, as sendMeshPacket ends
\* a frame
Sealed(head) == head \o U16Bytes(crc16_ccitt(head, Len(head)))

BuildFrame(type, src, dst, ctr, nonce, enc) ==
  Sealed(FrameHead(type, src, dst, ctr, nonce, enc))

(***************************************************************************)
(* The byte sequences the radio delivers in the model, as another node     *)
(* (id 46534) would send them, plus damaged ones.                          *)
(***************************************************************************)
Fill(k, b) == [i \in 1..k |-> b]
RxNonce == <<1, 2, 3, 4, 5, 6, 7, 8>>
KeyText == Fill(32, 65)

RxFrameSeq ==
  LET src == 46534
      head == FrameHead(32, src, BroadcastId, Word32(0, 9), RxNonce,
                        <<104, 105>>)
      good == BuildFrame(1, src, BroadcastId, Word32(0, 7), RxNonce,
                         Txt_DISCOVER \o DecStr(src))
  IN << good,
        BuildFrame(2, src, MyMac16, Word32(0, 8), RxNonce,
                   Txt_NODE \o DecStr(src)),
        BuildFrame(32, src, MyMac16, Word32(0, 9), RxNonce, <<104, 105>>),
        BuildFrame(48, src, MyMac16, Word32(0, 10), RxNonce,
                   Txt_KEY \o KeyText),
        BuildFrame(48, src, MyMac16, Word32(0, 11), RxNonce,
                   Txt_KEY \o <<122, 122>>),
        BuildFrame(49, src, MyMac16, Word32(0, 12), RxNonce, Txt_KEY_OK),
        BuildFrame(16, src, BroadcastId, Word32(0, 13), RxNonce,
                   Txt_WX \o DecStr(src)),
        BuildFrame(85, src, BroadcastId, Word32(0, 14), RxNonce, <<1>>),
        BuildFrame(32, src, 5, Word32(0, 15), RxNonce, <<104, 105>>),
        BuildFrame(32, src, BroadcastId, Word32(0, 16), RxNonce,
                   Fill(MaxPayload, 65)),
        BuildFrame(32, src, BroadcastId, Word32(0, 17), RxNonce,
                   Fill(MaxPayload + 1, 65)),
        Sealed(<<78, 88>> \o SubSeqFrom(head, 3)),
        [good EXCEPT ![Len(good)] = (@ + 1) % 256],
        Sealed(head \o <<0>>),
        <<77, 88, 1>>,
        BuildFrame(1, src, 5, Word32(0, 18), RxNonce,
                   Txt_DISCOVER \o DecStr(src)),
        BuildFrame(48, src, 5, Word32(0, 19), RxNonce, Txt_KEY \o KeyText),
        BuildFrame(48, src, MyMac16, Word32(0, 20), RxNonce,
                   Txt_KEY \o Txt_0x \o KeyText \o <<32>>) >>

RxFrames == DOMAIN RxFrameSeq

\* crc16_ccitt of every delivered sequence, over all of it and over all but
\* its last two bytes, computed once
RxCrcTable ==
  [i \in RxFrames |->
     LET f == RxFrameSeq[i]
     IN [all |-> crc16_ccitt(f, Len(f)),
         body |-> IF Len(f) >= 2 THEN crc16_ccitt(f, Len(f) - 2) ELSE 0]]

\* crc16_ccitt, looked up for the delivered sequences
Crc16(buf, len) ==
  LET hit == {i \in RxFrames : RxFrameSeq[i] = buf}
  IN IF hit # {} /\ len = Len(buf)
     THEN RxCrcTable[CHOOSE i \in hit : TRUE].all
     ELSE IF hit # {} /\ len = Len(buf) - 2
     THEN RxCrcTable[CHOOSE i \in hit : TRUE].body
     ELSE crc16_ccitt(buf, len)

Rejected(why) ==
  [ok |-> FALSE, why |-> why, type |-> 0, src |-> 0, dst |-> 0, ctr |-> Word32(0, 0),
   nonce |-> <<>>, payloadLen |-> 0, payload |-> <<>>]

ParseFrameWith(buf, len, ccrc) ==
  IF len < MinFrameLen THEN Rejected("short")
  ELSE IF <<buf[1], buf[2]>> # FrameMagic THEN Rejected("magic")
  ELSE IF U16At(buf, len - 1) # ccrc THEN Rejected("crc")
  ELSE IF HeaderLen + buf[21] + 2 # len THEN Rejected("length")
  ELSE [ok |-> TRUE, why |-> "ok", type |-> buf[4], src |-> U16At(buf, 5),
        dst |-> U16At(buf, 7), ctr |-> U32At(buf, 9),
        nonce |-> SubSeq(buf, 13, 20), payloadLen |-> buf[21],
        payload |-> SubSeq(buf, 22, 21 + buf[21])]

ParseFrame(buf, len) ==
  ParseFrameWith(buf, len,
                 IF len >= MinFrameLen THEN Crc16(buf, len - 2) ELSE 0)

(***************************************************************************)
(* Cipher layer.  mbedtls' AES is outside the repository: AesBlock stands  *)
(* for the block cipher as a fixed function of key and counter block; the  *)
(* CTR construction around it (nonce || counter || block index, xor of the *)
(* keystream into the data) is the source's.                               *)
(***************************************************************************)
RECURSIVE SumSeq(_)
SumSeq(s) == IF s = <<>> THEN 0 ELSE s[1] + SumSeq(Tail(s))

AesBlock(key, nonce, counter, blk) ==
  [j \in 1..16 |->
     (SumSeq(key) * 7 + SumSeq(nonce) * 13 + (counter.hi + counter.lo) * 31 + blk * 17
        + j * 29 + key[j] + 1) % 256]

KeyStream(key, nonce, counter, i) ==
  AesBlock(key, nonce, counter, (i - 1) \div 16)[((i - 1) % 16) + 1]

encryptCtr(enabled, key, plain, nonce, counter, aesOk) ==
  IF ~enabled THEN [ok |-> TRUE, data |-> plain]
  ELSE IF ~aesOk THEN [ok |-> FALSE, data |-> [i \in 1..Len(plain) |-> 0]]
  ELSE [ok |-> TRUE,
        data |-> [i \in 1..Len(plain) |->
                    Xor8(plain[i], KeyStream(key, nonce, counter, i))]]

\* decryption with the counter one too far
decryptCtrShifted(enabled, key, cipher, nonce, counter, aesOk) ==
  encryptCtr(enabled, key, cipher, nonce, Inc32(counter), aesOk)

decryptCtr(enabled, key, cipher, nonce, counter, aesOk) ==
  encryptCtr(enabled, key, cipher, nonce, counter, aesOk)

(***************************************************************************)
(* Configuration records.                                                  *)
(***************************************************************************)
\* LoraConfig g_cfg{}: zero-initialised
ZeroCfg ==
  [magic |-> 0, deviceType |-> 0, csPin |-> 0, resetPin |-> 0, busyPin |-> 0,
   dioPin |-> 0, frequency |-> 0, bandwidth |-> 0, spreadingFactor |-> 0,
   codingRate |-> 0, syncWord |-> 0, preambleLength |-> 0, tcxoVoltage |-> 0,
   useDio2AsRfSwitch |-> FALSE, btEnabled |-> FALSE, pwr |-> 0, sclkPin |-> 0,
   misoPin |-> 0, mosiPin |-> 0, nssPin |-> 0, rstPin |-> 0, dio0Pin |-> 0,
   dio1Pin |-> 0]

HeltecCfg(magic) ==
  [magic |-> magic, deviceType |-> 0, csPin |-> 8, resetPin |-> 12,
   busyPin |-> 13, dioPin |-> 14, frequency |-> 868000, bandwidth |-> 125000,
   spreadingFactor |-> 7, codingRate |-> 5, syncWord |-> 18,
   preambleLength |-> 8, tcxoVoltage |-> 1800, useDio2AsRfSwitch |-> FALSE,
   btEnabled |-> TRUE, pwr |-> 14, sclkPin |-> 9, misoPin |-> 11,
   mosiPin |-> 10, nssPin |-> 8, rstPin |-> 12, dio0Pin |-> 13, dio1Pin |-> 14]

WroomCfg(magic) ==
  [magic |-> magic, deviceType |-> 1, csPin |-> 5, resetPin |-> 14,
   busyPin |-> 26, dioPin |-> 35, frequency |-> 868000, bandwidth |-> 125000,
   spreadingFactor |-> 9, codingRate |-> 7, syncWord |-> 18,
   preambleLength |-> 22, tcxoVoltage |-> 1600, useDio2AsRfSwitch |-> FALSE,
   btEnabled |-> TRUE, pwr |-> 17, sclkPin |-> 18, misoPin |-> 19,
   mosiPin |-> 23, nssPin |-> 5, rstPin |-> 14, dio0Pin |-> 26, dio1Pin |-> 35]

setDefaultsHeltec(m) == [m EXCEPT !.g_cfg = HeltecCfg(m.g_cfg.magic)]

setDefaultsWroom(m) == [m EXCEPT !.g_cfg = WroomCfg(m.g_cfg.magic)]

enforceHeltecPins(m) ==
  [m EXCEPT !.g_cfg =
     [@ EXCEPT !.csPin = 8, !.resetPin = 12, !.busyPin = 13, !.dioPin = 14,
               !.sclkPin = 9, !.misoPin = 11, !.mosiPin = 10, !.nssPin = 8,
               !.rstPin = 12, !.dio0Pin = 13, !.dio1Pin = 14,
               !.tcxoVoltage = IF @ <= 10 THEN 1800 ELSE @]]

\* sizeof(LoraConfig) and sizeof(LegacyLoraConfig) on the 32-bit target
CfgSize == 44
LegacySize == 36
WxSize == 28

LegacyFields ==
  {"magic", "deviceType", "csPin", "resetPin", "busyPin", "dioPin",
   "frequency", "bandwidth", "spreadingFactor", "codingRate", "syncWord",
   "preambleLength", "tcxoVoltage", "useDio2AsRfSwitch", "btEnabled"}

NoBlob == [len |-> 0]

ZeroSensor == [pin |-> 0, analog |-> FALSE]

(***************************************************************************)
(* Notifications.  A line is kept as its "evt" value and one number (the   *)
(* id, code or length it carries; 0 when it carries none).                 *)
(***************************************************************************)
Note(evt, v) == [evt |-> evt, v |-> v]

sendMsg(m, line) ==
  [m EXCEPT !.serial = Append(@, line),
            !.ble = IF m.g_btActive THEN Append(@, line) ELSE @]

\* a chunk length that is not held to the budget
chunkLenWhole(len, off) == len - off

\* the length sendMsg gives the chunk that starts at off
chunkLen(len, off) ==
  IF len - off > BleChunk THEN BleChunk ELSE len - off

\* the values sendMsg sets on a TX characteristic, in order: the loop over
\* off from the offset given
RECURSIVE bleChunks(_, _)
bleChunks(line, off) ==
  IF off >= Len(line) THEN <<>>
  ELSE <<SubSeq(line, off + 1, off + chunkLen(Len(line), off))>>
         \o bleChunks(line, off + BleChunk)

\* sendMsg on the bytes of a line: what Serial.println writes and what is
\* notified on the two TX characteristics, which exist when g_btActive
sendMsgBytes(btActive, line) ==
  [serial |-> line \o <<13, 10>>,
   dyn |-> IF btActive THEN bleChunks(line, 0) ELSE <<>>,
   base |-> IF btActive THEN bleChunks(line, 0) ELSE <<>>]

sendSetupInfo(m) == sendMsg(m, Note("setup_info", 0))

sendConfig(m) == sendMsg(m, Note("config", 0))

(***************************************************************************)
(* Persistence.                                                            *)
(***************************************************************************)
\* putBytesIfChanged leaves the key holding exactly the bytes passed
putBytesIfChanged(store, key, data, len) ==
  [store EXCEPT ![key] = [len |-> len, data |-> data]]

saveWeatherConfig(m) ==
  LET w == [magic |-> WX_MAGIC,
            weatherMode |-> IF m.g_weatherModeEnabled THEN 1 ELSE 0,
            weatherIntervalMs |-> m.g_weatherIntervalMs,
            sensorCount |-> m.g_sensorCount,
            sensors |-> [i \in 1..MAX_SENSORS |->
                           IF i <= m.g_sensorCount THEN m.g_sensors[i]
                           ELSE ZeroSensor]]
  IN [m EXCEPT !.nvs = putBytesIfChanged(@, "wxcfg", w, WxSize)]

loadWeatherConfig(m) ==
  LET m1 == [m EXCEPT !.g_sensorCount = 0]
      blob == m.nvs.wxcfg
  IN IF blob.len = WxSize /\ blob.data.magic = WX_MAGIC
     THEN LET w == blob.data
              n == IF w.sensorCount > MAX_SENSORS THEN MAX_SENSORS
                   ELSE w.sensorCount
          IN [m1 EXCEPT
                !.g_weatherModeEnabled = (w.weatherMode # 0),
                !.g_weatherIntervalMs =
                   IF w.weatherIntervalMs < MinWeatherMs THEN MinWeatherMs
                   ELSE w.weatherIntervalMs,
                !.g_sensorCount = n,
                !.g_sensors = [i \in 1..MAX_SENSORS |->
                                 IF i <= n THEN w.sensors[i]
                                 ELSE m.g_sensors[i]]]
     ELSE m1

saveConfig(m) ==
  Bind([m EXCEPT !.g_cfg.magic = CFG_MAGIC], LAMBDA m1 :
    sendMsg([saveWeatherConfig(
               [m1 EXCEPT !.nvs = putBytesIfChanged(@, "cfg", m1.g_cfg,
                                                    CfgSize)])
             EXCEPT !.g_configSaved = TRUE],
            Note("cfg_saved", 0)))

\* a legacy branch that copies the old fields and fills in none of the new
UpgradeLegacyBare(m, old) ==
  [m EXCEPT !.g_cfg = [f \in DOMAIN m.g_cfg |->
                         IF f \in LegacyFields THEN old[f] ELSE m.g_cfg[f]]]

\* the legacy layout copied field by field, the new fields defaulted
UpgradeLegacy(m, old) ==
  Bind([f \in DOMAIN m.g_cfg |->
          IF f \in LegacyFields THEN old[f] ELSE m.g_cfg[f]], LAMBDA c1 :
    IF c1.deviceType = 0
    THEN enforceHeltecPins([m EXCEPT !.g_cfg = [c1 EXCEPT !.pwr = 14]])
    ELSE [m EXCEPT !.g_cfg =
            [c1 EXCEPT !.pwr = 17, !.sclkPin = 18, !.misoPin = 19,
                       !.mosiPin = 23, !.nssPin = c1.csPin,
                       !.rstPin = c1.resetPin, !.dio0Pin = c1.busyPin,
                       !.dio1Pin = c1.dioPin]])

\* the branch of loadConfig for a blob of sizeof(LoraConfig): m holds the
\* bytes read into g_cfg
loadedFull(m) ==
  IF m.g_cfg.magic = CFG_MAGIC
  THEN [loadWeatherConfig(IF m.g_cfg.deviceType = 0 THEN enforceHeltecPins(m)
                          ELSE m)
        EXCEPT !.g_configSaved = TRUE, !.ret = TRUE]
  ELSE [m EXCEPT !.ret = FALSE]

loadConfig(m) ==
  IF m.nvs.cfg.len = CfgSize
  THEN loadedFull([m EXCEPT !.g_cfg = m.nvs.cfg.data])
  ELSE IF m.nvs.cfg.len = LegacySize /\ m.nvs.cfg.data.magic = CFG_MAGIC
  THEN [loadWeatherConfig(UpgradeLegacy(m, m.nvs.cfg.data)) EXCEPT
          !.g_configSaved = TRUE, !.ret = TRUE]
  ELSE [m EXCEPT !.ret = FALSE]

(***************************************************************************)
(* Peer table and dedup cache.                                             *)
(***************************************************************************)
\* a store into g_peers[idx] (idx counted from 0); outside the array it is
\* a write past the end of the table
PeerStore(m, idx, id) ==
  IF idx < MAX_PEERS
  THEN [m EXCEPT !.g_peers[idx + 1] = [id |-> id, lastSeenMs |-> m.now]]
  ELSE [m EXCEPT !.fault = TRUE]

\* the first slot below g_peerCount that holds id, 0 when none does
PeerSlot(m, id) ==
  IF \E i \in 1..m.g_peerCount : m.g_peers[i].id = id
  THEN CHOOSE i \in 1..m.g_peerCount :
         /\ m.g_peers[i].id = id
         /\ \A k \in 1..(i - 1) : m.g_peers[k].id # id
  ELSE 0

\* updatePeer without the capacity test
updatePeerUnbounded(m, id) ==
  IF id = 0 THEN [m EXCEPT !.peerCalls = @ + 1]
  ELSE IF PeerSlot(m, id) # 0
  THEN [m EXCEPT !.peerCalls = @ + 1,
                 !.g_peers[PeerSlot(m, id)].lastSeenMs = m.now]
  ELSE [PeerStore([m EXCEPT !.peerCalls = @ + 1], m.g_peerCount, id) EXCEPT
          !.g_peerCount = (@ + 1) % 256]

\* an updatePeer that leaves the time of a peer it already holds
updatePeerStale(m, id) ==
  IF id = 0 THEN [m EXCEPT !.peerCalls = @ + 1]
  ELSE IF PeerSlot(m, id) # 0
  THEN [m EXCEPT !.peerCalls = @ + 1]
  ELSE IF m.g_peerCount < MAX_PEERS
  THEN [PeerStore([m EXCEPT !.peerCalls = @ + 1], m.g_peerCount, id) EXCEPT
          !.g_peerCount = (@ + 1) % 256]
  ELSE [m EXCEPT !.peerCalls = @ + 1]

updatePeer(m, id) ==
  IF id = 0 THEN [m EXCEPT !.peerCalls = @ + 1]
  ELSE IF PeerSlot(m, id) # 0
  THEN [m EXCEPT !.peerCalls = @ + 1,
                 !.g_peers[PeerSlot(m, id)].lastSeenMs = m.now]
  ELSE IF m.g_peerCount < MAX_PEERS
  THEN [PeerStore([m EXCEPT !.peerCalls = @ + 1], m.g_peerCount, id) EXCEPT
          !.g_peerCount = (@ + 1) % 256]
  ELSE [m EXCEPT !.peerCalls = @ + 1]

\* an isDuplicate that stores the checksum whether or not it was found
isDuplicateAlways(m, crc) ==
  [m EXCEPT !.g_dupCache[m.g_dupHead + 1] = crc,
            !.g_dupHead = IF m.g_dupHead + 1 >= DUP_CACHE_SIZE THEN 0
                          ELSE m.g_dupHead + 1,
            !.ret = crc # 0 /\ \E i \in 1..DUP_CACHE_SIZE :
                                 m.g_dupCache[i] = crc]

\* returns through m.ret
isDuplicate(m, crc) ==
  IF crc # 0 /\ \E i \in 1..DUP_CACHE_SIZE : m.g_dupCache[i] = crc
  THEN [m EXCEPT !.ret = TRUE]
  ELSE [m EXCEPT !.g_dupCache[m.g_dupHead + 1] = crc,
                 !.g_dupHead = IF m.g_dupHead + 1 >= DUP_CACHE_SIZE THEN 0
                               ELSE m.g_dupHead + 1,
                 !.ret = FALSE]

\* a send that goes on with the plaintext when the cipher step failed
transmitFrameAnyway(m, type, dst, enc, env) ==
  [m EXCEPT
     !.air = Append(@, BuildFrame(type, m.g_nodeId, dst, m.g_meshTxCounter,
                                  env.nonce, enc.data)),
     !.g_meshTxCounter = Inc32(@),
     !.ret = env.txOk]

\* a send that counts only the frames the driver took
transmitFrameOnSuccess(m, type, dst, enc, env) ==
  IF ~enc.ok THEN [m EXCEPT !.ret = FALSE]
  ELSE [m EXCEPT
          !.air = Append(@, BuildFrame(type, m.g_nodeId, dst,
                                       m.g_meshTxCounter, env.nonce,
                                       enc.data)),
          !.g_meshTxCounter = IF env.txOk THEN Inc32(@) ELSE @,
          !.ret = env.txOk]

(***************************************************************************)
(* Sending.                                                                *)
(***************************************************************************)
\* the frame of sendMeshPacket handed to transmit(); enc is the result of
\* the cipher step
transmitFrame(m, type, dst, enc, env) ==
  IF ~enc.ok THEN [m EXCEPT !.ret = FALSE]
  ELSE [m EXCEPT
          !.air = Append(@, BuildFrame(type, m.g_nodeId, dst,
                                       m.g_meshTxCounter, env.nonce,
                                       enc.data)),
          !.g_meshTxCounter = Inc32(@),
          !.ret = env.txOk]

\* a send that takes a payload of any length
sendMeshPacketAnyLen(m, type, dst, payload, payloadLen, env) ==
  IF ~m.g_radioReady \/ ~m.g_radio THEN [m EXCEPT !.ret = FALSE]
  ELSE transmitFrame(m, type, dst,
                     IF type \in PlainTypes
                     THEN [ok |-> TRUE, data |-> SubSeq(payload, 1, payloadLen)]
                     ELSE encryptCtr(m.g_meshEncryptionEnabled, m.g_meshKey,
                                     SubSeq(payload, 1, payloadLen),
                                     env.nonce, m.g_meshTxCounter, env.aesOk),
                     env)

\* payload is the caller's buffer, payloadLen its uint8_t length argument
sendMeshPacket(m, type, dst, payload, payloadLen, env) ==
  IF ~m.g_radioReady \/ ~m.g_radio THEN [m EXCEPT !.ret = FALSE]
  ELSE IF payloadLen > MaxPayload THEN [m EXCEPT !.ret = FALSE]
  ELSE transmitFrame(m, type, dst,
                     IF type \in PlainTypes
                     THEN [ok |-> TRUE, data |-> SubSeq(payload, 1, payloadLen)]
                     ELSE encryptCtr(m.g_meshEncryptionEnabled, m.g_meshKey,
                                     SubSeq(payload, 1, payloadLen),
                                     env.nonce, m.g_meshTxCounter, env.aesOk),
                     env)

sendPeerList(m) == sendMsg(m, Note("peers", m.g_peerCount))

\* the first slot below g_sensorCount that holds pin, 0 when none does
SensorSlot(m, pin) ==
  IF \E i \in 1..m.g_sensorCount : m.g_sensors[i].pin = pin
  THEN CHOOSE i \in 1..m.g_sensorCount :
         /\ m.g_sensors[i].pin = pin
         /\ \A k \in 1..(i - 1) : m.g_sensors[k].pin # pin
  ELSE 0

\* returns through m.ret
addSensor(m, pin, analogMode) ==
  IF SensorSlot(m, pin) # 0
  THEN [m EXCEPT !.g_sensors[SensorSlot(m, pin)].analog = analogMode,
                 !.ret = TRUE]
  ELSE IF m.g_sensorCount >= MAX_SENSORS THEN [m EXCEPT !.ret = FALSE]
  ELSE [m EXCEPT
          !.g_sensors[m.g_sensorCount + 1] =
             [pin |-> pin, analog |-> analogMode],
          !.g_sensorCount = @ + 1, !.ret = TRUE]

RECURSIVE WeatherText(_, _, _)
WeatherText(m, i, env) ==
  IF i > m.g_sensorCount THEN <<>>
  ELSE <<59>> \o DecStr(m.g_sensors[i].pin) \o <<58>> \o DecStr(env.reading)
         \o WeatherText(m, i + 1, env)

WeatherPayload(m, env) ==
  Txt_WX \o DecStr(m.g_nodeId) \o WeatherText(m, 1, env)

sendWeatherPacket(m, env) ==
  IF ~m.g_meshRunning \/ ~m.g_radioReady THEN m
  ELSE Bind(sendMeshPacket(m, 16, BroadcastId, WeatherPayload(m, env),
                           Len(WeatherPayload(m, env)) % 256, env),
            LAMBDA m1 :
              IF m1.ret THEN sendMsg(m1, Note("weather_tx", m.g_sensorCount))
              ELSE m1)

\* returns through m.ret
\* p is the payload after trim()
sendTrimmed(m, dst, p, env) ==
  IF Len(p) = 0 \/ Len(p) > MaxPayload THEN [m EXCEPT !.ret = FALSE]
  ELSE sendMeshPacket(m, 32, dst, p, Len(p) % 256, env)

\* returns through m.ret
sendWebsiteMessage(m, dst, payload, env) ==
  IF ~m.g_meshRunning \/ ~m.g_radioReady THEN [m EXCEPT !.ret = FALSE]
  ELSE sendTrimmed(m, dst, Trim(payload), env)

(***************************************************************************)
(* Radio bringup.  env.okAt is the number of the first driver begin call   *)
(* of this bringup that answers RADIOLIB_ERR_NONE (0: none does); env.err  *)
(* is the status of the failing calls.                                     *)
(***************************************************************************)
TriesPerPass == 12

\* what the lambda beginWith hands to Module() and to begin(), the last two
\* being the power and the voltage of the call; the field begun holds those
\* of the last call that answered RADIOLIB_ERR_NONE
BeginArgs(cfg) ==
  <<cfg.nssPin, cfg.dio1Pin, cfg.rstPin, cfg.dio0Pin, cfg.frequency,
    cfg.bandwidth, cfg.spreadingFactor, cfg.codingRate, cfg.syncWord,
    cfg.preambleLength, cfg.pwr, cfg.tcxoVoltage>>

tcxoTry(cfg) == <<cfg.tcxoVoltage, 1800, 1600, 0>>
pwrTry(cfg) == <<cfg.pwr, 14, 10>>

\* a successful begin call that leaves g_cfg as it was
profileFoundKeep(m, k, emit) ==
  Bind([m EXCEPT !.g_radio = TRUE, !.beginCalls = @ + k,
                 !.lastState = RADIOLIB_ERR_NONE, !.ret = TRUE],
       LAMBDA m2 :
         IF emit THEN sendMsg(m2, Note("tcxo_auto", m2.g_cfg.tcxoVoltage))
         ELSE m2)

\* the begin call number k of one pass of the lambda tryProfile answers
\* RADIOLIB_ERR_NONE: the profile of that call stays in g_cfg
profileFound(m, k, emit) ==
  Bind([m EXCEPT
          !.g_cfg.tcxoVoltage = tcxoTry(m.g_cfg)[((k - 1) % 4) + 1],
          !.g_cfg.pwr = pwrTry(m.g_cfg)[((k - 1) \div 4) + 1],
          !.g_radio = TRUE, !.beginCalls = @ + k,
          !.lastState = RADIOLIB_ERR_NONE, !.ret = TRUE],
       LAMBDA m2 :
         Bind([m2 EXCEPT !.begun = BeginArgs(m2.g_cfg)], LAMBDA m3 :
           IF emit THEN sendMsg(m3, Note("tcxo_auto", m3.g_cfg.tcxoVoltage))
           ELSE m3))

\* a failing pass that keeps the status of its first call
profilePassFirstErr(m, done, emit, env) ==
  IF (env.okAt - done) \in 1..TriesPerPass
  THEN profileFound(m, env.okAt - done, emit)
  ELSE [m EXCEPT !.g_radio = TRUE, !.beginCalls = @ + TriesPerPass,
                 !.lastState = env.err - (done + 1), !.ret = FALSE]

\* the status of failing begin call number n: the codes differ from call to
\* call, so that the last one can be told from the others
ErrOf(env, n) == env.err - n

\* one pass over the twelve profiles; done is the number of begin calls
\* made before it
profilePass(m, done, emit, env) ==
  IF (env.okAt - done) \in 1..TriesPerPass
  THEN profileFound(m, env.okAt - done, emit)
  ELSE [m EXCEPT !.g_radio = TRUE, !.beginCalls = @ + TriesPerPass,
                 !.lastState = ErrOf(env, done + TriesPerPass),
                 !.ret = FALSE]

\* the lambda tryProfile
tryProfile(m, enforcePins, done, emit, env) ==
  profilePass(IF enforcePins /\ m.g_cfg.deviceType = 0
              THEN enforceHeltecPins(m) ELSE m,
              done, emit, env)

\* returns through m.ret
\* the end of initRadioRobust, m being the machine after the passes
radioResult(m, emit) ==
  IF m.ret
  THEN (IF emit THEN sendMsg([m EXCEPT !.g_radioReady = TRUE],
                             Note("radio_ready", 0))
        ELSE [m EXCEPT !.g_radioReady = TRUE])
  ELSE (IF emit THEN sendMsg([m EXCEPT !.g_radioReady = FALSE],
                             Note("radio_err", m.lastState))
        ELSE [m EXCEPT !.g_radioReady = FALSE])

\* a second pass made for any board when the first found nothing
secondPassAny(m, emit, env) ==
  IF ~m.ret THEN tryProfile(m, TRUE, TriesPerPass, emit, env) ELSE m

\* the second pass, made for a Heltec board when the first found nothing
secondPass(m, emit, env) ==
  IF ~m.ret /\ m.g_cfg.deviceType = 0
  THEN tryProfile(m, TRUE, TriesPerPass, emit, env)
  ELSE m

\* returns through m.ret
initRadioRobust(m, emit, env) ==
  radioResult(
    secondPass(tryProfile([m EXCEPT !.lastState = NoState], FALSE, 0, emit,
                          env),
               emit, env),
    emit)

\* a mesh start that does not look at the result of the bringup
meshStartAnyway(m, emit) ==
  Bind([m EXCEPT !.g_nodeId = MyMac16, !.g_meshRunning = TRUE,
                 !.ret = TRUE, !.startInSetup = m.g_setupMode],
       LAMBDA m2 :
         IF emit THEN sendMsg(m2, Note("mesh_started", MyMac16))
         ELSE m2)

\* the end of ensureMeshRunning, m being the machine after the bringup
meshStart(m, emit) ==
  IF ~m.ret
  THEN (IF emit THEN sendMsg(m, Note("radio_not_ready", 0)) ELSE m)
  ELSE Bind([m EXCEPT !.g_nodeId = MyMac16, !.g_meshRunning = TRUE,
                      !.ret = TRUE, !.startInSetup = m.g_setupMode],
            LAMBDA m2 :
              IF emit THEN sendMsg(m2, Note("mesh_started", MyMac16))
              ELSE m2)

\* returns through m.ret
ensureMeshRunning(m, emit, env) ==
  meshStart(IF ~m.g_radioReady THEN initRadioRobust(m, emit, env)
            ELSE [m EXCEPT !.ret = TRUE],
            emit)

sendDiscoveryResponse(m, dst, env) ==
  sendMeshPacket(m, 2, dst, Txt_NODE \o DecStr(m.g_nodeId),
                 Len(Txt_NODE \o DecStr(m.g_nodeId)) % 256, env)

broadcastDiscovery(m, env) ==
  Bind(sendMeshPacket(m, 1, BroadcastId, Txt_DISCOVER \o DecStr(m.g_nodeId),
                      Len(Txt_DISCOVER \o DecStr(m.g_nodeId)) % 256, env),
       LAMBDA m1 :
         IF m1.ret THEN sendMsg(m1, Note("scan_started", 0))
         ELSE sendMsg(m1, Note("radio_err", NoState)))

\* a receiver that runs every payload through the cipher
meshDecodeCipher(m, f, env) ==
  decryptCtr(m.g_meshEncryptionEnabled, m.g_meshKey, f.payload, f.nonce,
             f.ctr, env.aesOk)

(***************************************************************************)
(* Receive path.                                                           *)
(***************************************************************************)
\* the plaintext of a frame: copied for the plain types, decrypted otherwise
meshDecode(m, f, env) ==
  IF f.type \in PlainTypes THEN [ok |-> TRUE, data |-> f.payload]
  ELSE decryptCtr(m.g_meshEncryptionEnabled, m.g_meshKey, f.payload, f.nonce,
                  f.ctr, env.aesOk)

\* a key frame answered with an ack whatever its text
keyFrameAckAlways(m, src, k, env) ==
  sendMeshPacket(IF k.ok
                 THEN sendMsg([m EXCEPT !.g_meshKey = k.key,
                                        !.keySets = @ + 1],
                              Note("mesh_key_rx", src))
                 ELSE sendMsg(m, Note("mesh_key_rx_err", src)),
                 49, src, Txt_KEY_OK, Len(Txt_KEY_OK), env)

\* a dispatch that answers a discovery response with one of its own
frameEventEcho(m, f, payload, env) ==
  IF f.type \in {1, 2}
  THEN sendMsg(sendDiscoveryResponse(m, f.src, env),
               Note("peer_found", f.src))
  ELSE sendMsg(m, Note("mesh_rx", f.src))

\* type 0x30: k is what parseHexKey16 made of the text after "KEY:"
keyFrame(m, src, k, env) ==
  IF k.ok
  THEN sendMeshPacket(sendMsg([m EXCEPT !.g_meshKey = k.key,
                                        !.keySets = @ + 1],
                              Note("mesh_key_rx", src)),
                      49, src, Txt_KEY_OK, Len(Txt_KEY_OK), env)
  ELSE sendMsg(m, Note("mesh_key_rx_err", src))

\* the dispatch on the frame type that follows updatePeer
frameEvent(m, f, payload, env) ==
  IF f.type = 1
  THEN sendMsg(sendDiscoveryResponse(m, f.src, env),
               Note("peer_found", f.src))
  ELSE IF f.type = 2 THEN sendMsg(m, Note("peer_found", f.src))
  ELSE IF f.type = 16 THEN sendMsg(m, Note("weather_rx", f.src))
  ELSE IF f.type = 32 THEN sendMsg(m, Note("msg_rx", f.src))
  ELSE IF f.type = 48
  THEN keyFrame(m, f.src,
                IF StartsWith(payload, Txt_KEY)
                THEN parseHexKey16(SubSeqFrom(payload, 5))
                ELSE [ok |-> FALSE, key |-> <<>>],
                env)
  ELSE IF f.type = 49 THEN sendMsg(m, Note("mesh_key_ack", f.src))
  ELSE sendMsg(m, Note("mesh_rx", f.src))

\* the frame has passed every check and its payload is written to
\* plain[120]; env.ubCrash: whether a write past the buffer ends in a crash
\* and restart
frameAccepted(m, f, payload, env) ==
  IF f.payloadLen > PlainBufSize /\ env.ubCrash
  THEN [m EXCEPT !.accepted = TRUE, !.acceptedLen = f.payloadLen,
                 !.fault = TRUE, !.restart = TRUE]
  ELSE frameEvent(updatePeer([m EXCEPT
                                !.accepted = TRUE,
                                !.acceptedLen = f.payloadLen,
                                !.fault = (f.payloadLen > PlainBufSize)],
                             f.src),
                  f, payload, env)

frameDecoded(m, f, dec, env) ==
  IF ~dec.ok THEN m ELSE frameAccepted(m, f, dec.data, env)

\* a receiver that takes frames whatever their destination
frameParsedAnyDst(m, f, env) ==
  IF ~f.ok THEN m ELSE frameDecoded(m, f, meshDecode(m, f, env), env)

frameParsed(m, f, env) ==
  IF ~f.ok THEN m
  ELSE IF ~(f.dst = BroadcastId \/ f.dst = m.g_nodeId) THEN m
  ELSE frameDecoded(m, f, meshDecode(m, f, env), env)

handleMeshFrame(m, buf, len, env) == frameParsed(m, ParseFrame(buf, len), env)

handleIncoming(m, buf, len, env) ==
  Bind(isDuplicate(m, Crc16(buf, len)), LAMBDA m1 :
    IF m1.ret THEN m1
    ELSE handleMeshFrame(sendMsg(m1, Note("rx", len)), buf, len, env))

(***************************************************************************)
(* Command lines as tokens.                                                *)
(***************************************************************************)
W(s) == [w |-> s]
Num(milli) == [n |-> milli]
Hex(v) == [h |-> v]
B(bytes) == [b |-> bytes]

\* String::toFloat and String::toInt of a token (0 when it is no number)
ToFloat(t) == IF "n" \in DOMAIN t THEN t.n ELSE 0
ToInt(t) ==
  LET x == ToFloat(t)
  IN IF x >= 0 THEN x \div 1000 ELSE 0 - ((0 - x) \div 1000)

TokBytes(t) == IF "b" \in DOMAIN t THEN t.b ELSE <<>>

U8(x) == x % 256
U16(x) == x % 65536
\* millis() differences and toInt() results cast to uint32_t: never negative
\* in the model, where the cast changes nothing
\* (uint32_t) of a long: a negative value wraps to 2^32 + x, which is past
\* the integers of the model and is held as the largest of them; it is
\* only ever compared with values below 2^31
U32(x) == IF x < 0 THEN 2147483647 ELSE x

IsTrue(t, words) == t \in {W(x) : x \in words} \/ t = Num(1000)

(***************************************************************************)
(* startConfigMode, in its two halves: up to the sub-loop, and from the    *)
(* break of the sub-loop on.  The sub-loop itself is the action SubLoop.   *)
(***************************************************************************)
startConfigEnter(m) ==
  sendSetupInfo(
    sendMsg(sendMsg([m EXCEPT !.g_setupMode = TRUE,
                              !.g_setupSaveRequested = FALSE,
                              !.lastPrompt = m.now, !.enterSetup = TRUE],
                    Note("config_mode", 0)),
            Note("serial_setup_ready", 0)))

\* an exit that clears g_setupMode before it saves and starts the mesh
startConfigLeaveEarly(m, env) ==
  [ensureMeshRunning(sendMsg(saveConfig([m EXCEPT !.g_setupMode = FALSE]),
                             Note("config_done", 0)), TRUE, env)
   EXCEPT !.left = TRUE]

startConfigLeave(m, env) ==
  [ensureMeshRunning(sendMsg(saveConfig(m), Note("config_done", 0)), TRUE,
                     env)
   EXCEPT !.g_setupMode = FALSE, !.left = TRUE]

\* the sub-loop leaving on either flag
startConfigPollEither(m, env) ==
  IF m.restart THEN m
  ELSE IF m.g_setupSaveRequested \/ m.g_radioReady
  THEN startConfigLeave(m, env)
  ELSE m

\* a sub-loop that gives up when the status interval has passed
startConfigPollTimeout(m, env) ==
  IF m.restart THEN m
  ELSE IF (m.g_setupSaveRequested /\ m.g_radioReady)
          \/ U32(m.now - m.lastPrompt) >= PromptMs
  THEN startConfigLeave(m, env)
  ELSE m

(***************************************************************************)
(* handleCommand.                                                          *)
(***************************************************************************)
\* g_advertising is non-null exactly while g_btActive is set
enableBluetoothVisible(m) == [m EXCEPT !.g_btActive = TRUE]

disableBluetooth(m) == [m EXCEPT !.g_btActive = FALSE]

PinKeys == {"cs", "nss", "reset", "rst", "busy", "dio", "dio0", "dio1"}

\* a set that writes the named pin field and not its other name
SetFieldOne(m, key, val) ==
  LET c == m.g_cfg
      i8 == U8(ToInt(val))
  IN CASE key = "cs" -> [c EXCEPT !.csPin = i8]
       [] key = "nss" -> [c EXCEPT !.nssPin = i8]
       [] key = "reset" -> [c EXCEPT !.resetPin = i8]
       [] key = "rst" -> [c EXCEPT !.rstPin = i8]
       [] key = "busy" -> [c EXCEPT !.busyPin = i8]
       [] key = "dio0" -> [c EXCEPT !.dio0Pin = i8]
       [] key = "dio" -> [c EXCEPT !.dioPin = i8]
       [] key = "dio1" -> [c EXCEPT !.dio1Pin = i8]
       [] OTHER -> c

SetField(m, key, val) ==
  LET c == m.g_cfg
      i8 == U8(ToInt(val))
  IN CASE key \in {"cs", "nss"} -> [c EXCEPT !.csPin = i8, !.nssPin = i8]
       [] key \in {"reset", "rst"} -> [c EXCEPT !.resetPin = i8, !.rstPin = i8]
       [] key \in {"busy", "dio0"} -> [c EXCEPT !.busyPin = i8, !.dio0Pin = i8]
       [] key \in {"dio", "dio1"} -> [c EXCEPT !.dioPin = i8, !.dio1Pin = i8]
       [] key = "sclk" -> [c EXCEPT !.sclkPin = i8]
       [] key = "miso" -> [c EXCEPT !.misoPin = i8]
       [] key = "mosi" -> [c EXCEPT !.mosiPin = i8]
       [] key = "freq" -> [c EXCEPT !.frequency = ToFloat(val)]
       [] key = "bw" -> [c EXCEPT !.bandwidth = ToFloat(val)]
       [] key = "sf" -> [c EXCEPT !.spreadingFactor = i8]
       [] key = "cr" -> [c EXCEPT !.codingRate = i8]
       [] key = "pwr" -> [c EXCEPT !.pwr = i8]
       [] key \in {"sync", "sw"} ->
            [c EXCEPT !.syncWord = IF "h" \in DOMAIN val THEN U8(val.h)
                                   ELSE i8]
       [] key = "preamble" -> [c EXCEPT !.preambleLength = U16(ToInt(val))]
       [] key = "tcxo" -> [c EXCEPT !.tcxoVoltage = ToFloat(val)]
       [] key = "dio2" ->
            [c EXCEPT !.useDio2AsRfSwitch = IsTrue(val, {"true"})]
       [] OTHER -> c

CfgKeys ==
  PinKeys \cup {"sclk", "miso", "mosi", "freq", "bw", "sf", "cr", "pwr",
                "sync", "sw", "preamble", "tcxo", "dio2"}

\* an interval stored as it was given
WeatherFloorNone(v) == v

WeatherFloor(v) == IF v < MinWeatherMs THEN MinWeatherMs ELSE v

\* key and val are the two parts of the text after "set "
setKey(m, key, val) ==
  IF key \in CfgKeys
  THEN sendMsg([m EXCEPT !.g_cfg = SetField(m, key, val)], Note("ok", 0))
  ELSE IF key \in {"weather", "wx"}
  THEN sendMsg([m EXCEPT !.g_weatherModeEnabled =
                            IsTrue(val, {"true", "on"})],
               Note("ok", 0))
  ELSE IF key \in {"weather_interval", "wxint"}
  THEN sendMsg([m EXCEPT !.g_weatherIntervalMs =
                            WeatherFloor(U32(ToInt(val)))],
               Note("ok", 0))
  ELSE sendMsg(m, Note("unknown_cmd", 0))

cmdSet(m, cmd) ==
  IF Len(cmd) < 3 \/ "w" \notin DOMAIN cmd[2]
  THEN sendMsg(m, Note("unknown_cmd", 0))
  ELSE setKey(m, cmd[2].w, cmd[3])

cmdDevice(m, cmd) ==
  IF Len(cmd) = 2 /\ cmd[2] \in {W("heltec"), W("heltec_v3")}
  THEN sendSetupInfo(sendMsg(setDefaultsHeltec(m),
                             Note("defaults_applied", 0)))
  ELSE IF Len(cmd) = 2 /\ cmd[2] \in {W("wroom"), W("megamesh")}
  THEN sendSetupInfo(sendMsg(setDefaultsWroom(m),
                             Note("defaults_applied", 0)))
  ELSE sendMsg(m, Note("unknown_cmd", 0))

cmdSave(m) ==
  IF ~m.g_setupMode THEN sendMsg(saveConfig(m), Note("cfg_staged", 0))
  ELSE sendMsg([m EXCEPT !.g_setupSaveRequested = TRUE],
               Note("cfg_staged", 0))

cmdAutostart(m, env) ==
  Bind(ensureMeshRunning(
         saveConfig(IF m.g_setupMode
                    THEN [m EXCEPT !.g_setupSaveRequested = TRUE] ELSE m),
         TRUE, env),
       LAMBDA m2 :
         IF m2.ret THEN sendMsg(m2, Note("autostart_ok", 0))
         ELSE sendMsg(m2, Note("autostart_err", 0)))

cmdMeshScan(m, env) ==
  Bind(ensureMeshRunning(m, TRUE, env), LAMBDA m1 :
    IF ~m1.ret THEN sendMsg(m1, Note("radio_not_ready", 0))
    ELSE broadcastDiscovery(m1, env))

cmdKeySend(m, cmd, env) ==
  IF ~m.g_meshRunning \/ ~m.g_radioReady
  THEN sendMsg(m, Note("radio_not_ready", 0))
  ELSE Bind(sendMeshPacket(m, 48, U16(ToInt(cmd[3])),
                           Txt_KEY \o HexOfBytes(m.g_meshKey),
                           Len(Txt_KEY \o HexOfBytes(m.g_meshKey)) % 256,
                           env),
            LAMBDA m1 :
              IF m1.ret
              THEN sendMsg(m1, Note("mesh_key_tx", U16(ToInt(cmd[3]))))
              ELSE sendMsg(m1, Note("mesh_key_tx_err", U16(ToInt(cmd[3])))))

\* k is what parseHexKey16 made of the text after "mesh key "
keySet(m, k) ==
  IF ~k.ok THEN sendMsg(m, Note("radio_err", -910))
  ELSE sendMsg(sendMsg([m EXCEPT !.g_meshKey = k.key, !.keySets = @ + 1],
                       Note("mesh_key", 0)),
               Note("ok", 0))

cmdKeySet(m, cmd) ==
  keySet(m, IF Len(cmd) = 3 THEN parseHexKey16(TokBytes(cmd[3]))
            ELSE [ok |-> FALSE, key |-> <<>>])

cmdWeatherAdd(m, cmd) ==
  IF Len(cmd) < 4 THEN sendMsg(m, Note("unknown_cmd", 0))
  ELSE Bind(addSensor(m, U8(ToInt(cmd[3])),
                      cmd[4] \in {W("a"), W("analog")}),
            LAMBDA m1 :
              IF ~m1.ret THEN sendMsg(m1, Note("radio_err", -911))
              ELSE sendMsg(m1, Note("ok", 0)))

cmdSendTo(m, cmd, env) ==
  IF Len(cmd) < 3 THEN sendMsg(m, Note("unknown_cmd", 0))
  ELSE Bind(sendWebsiteMessage(m, U16(ToInt(cmd[2])), TokBytes(cmd[3]), env),
            LAMBDA m1 :
              IF m1.ret THEN sendMsg(m1, Note("msg_tx", U16(ToInt(cmd[2]))))
              ELSE sendMsg(m1, Note("msg_tx_err", 0)))

cmdSend(m, cmd, env) ==
  Bind(sendWebsiteMessage(m, BroadcastId, TokBytes(cmd[2]), env),
       LAMBDA m1 :
         IF m1.ret THEN sendMsg(m1, Note("msg_tx", BroadcastId))
         ELSE sendMsg(m1, Note("msg_tx_err", 0)))

Is(cmd, words) == cmd = [i \in 1..Len(words) |-> W(words[i])]
Begins(cmd, words) ==
  Len(cmd) > Len(words) /\ SubSeq(cmd, 1, Len(words)) = [i \in 1..Len(words) |-> W(words[i])]

handleCommand(m, cmd, env) ==
  IF Is(cmd, <<"bt", "on">>)
  THEN sendMsg(enableBluetoothVisible([m EXCEPT !.g_cfg.btEnabled = TRUE]),
               Note("bt_on", 0))
  ELSE IF Is(cmd, <<"bt", "off">>)
  THEN sendMsg(disableBluetooth([m EXCEPT !.g_cfg.btEnabled = FALSE]),
               Note("bt_off", 0))
  ELSE IF Is(cmd, <<"help">>) THEN sendMsg(m, Note("cmds", 0))
  ELSE IF Is(cmd, <<"show">>) THEN sendConfig(m)
  ELSE IF Is(cmd, <<"info">>) THEN sendSetupInfo(m)
  ELSE IF Is(cmd, <<"setup">>)
  THEN (IF m.g_setupMode THEN sendMsg(m, Note("setup_already", 0))
        ELSE startConfigEnter(m))
  ELSE IF Begins(cmd, <<"device">>) THEN cmdDevice(m, cmd)
  ELSE IF Begins(cmd, <<"set">>) THEN cmdSet(m, cmd)
  ELSE IF Is(cmd, <<"save">>) THEN cmdSave(m)
  ELSE IF Is(cmd, <<"init">>) THEN initRadioRobust(m, TRUE, env)
  ELSE IF Is(cmd, <<"autostart">>) THEN cmdAutostart(m, env)
  ELSE IF Is(cmd, <<"startmesh">>) THEN ensureMeshRunning(m, TRUE, env)
  ELSE IF Is(cmd, <<"mesh", "scan">>) THEN cmdMeshScan(m, env)
  ELSE IF Is(cmd, <<"mesh", "peers">>) THEN sendPeerList(m)
  ELSE IF Is(cmd, <<"mesh", "key">>) THEN sendMsg(m, Note("mesh_key", 0))
  ELSE IF Is(cmd, <<"mesh", "keygen">>)
  THEN sendMsg([m EXCEPT !.g_meshKey = env.rndKey, !.keySets = @ + 1],
               Note("mesh_key", 0))
  ELSE IF Begins(cmd, <<"mesh", "keysend">>) THEN cmdKeySend(m, cmd, env)
  ELSE IF Begins(cmd, <<"mesh", "key">>) THEN cmdKeySet(m, cmd)
  ELSE IF Begins(cmd, <<"mesh", "enc">>)
  THEN Bind(Len(cmd) = 3 /\ IsTrue(cmd[3], {"on", "true"}), LAMBDA on :
         sendMsg([m EXCEPT !.g_meshEncryptionEnabled = on],
                 Note("mesh_enc", IF on THEN 1 ELSE 0)))
  ELSE IF Is(cmd, <<"weather", "on">>)
  THEN sendMsg([m EXCEPT !.g_weatherModeEnabled = TRUE], Note("ok", 0))
  ELSE IF Is(cmd, <<"weather", "off">>)
  THEN sendMsg([m EXCEPT !.g_weatherModeEnabled = FALSE], Note("ok", 0))
  ELSE IF Begins(cmd, <<"weather", "interval">>)
  THEN sendMsg([m EXCEPT !.g_weatherIntervalMs =
                            WeatherFloor(U32(ToInt(cmd[3])))],
               Note("ok", 0))
  ELSE IF Begins(cmd, <<"weather", "add">>) THEN cmdWeatherAdd(m, cmd)
  ELSE IF Is(cmd, <<"weather", "clear">>)
  THEN sendMsg([m EXCEPT !.g_sensorCount = 0], Note("ok", 0))
  ELSE IF Is(cmd, <<"weather", "now">>) THEN sendWeatherPacket(m, env)
  ELSE IF Begins(cmd, <<"sendto">>) THEN cmdSendTo(m, cmd, env)
  ELSE IF Begins(cmd, <<"send">>) THEN cmdSend(m, cmd, env)
  ELSE IF Is(cmd, <<"reboot">>)
  THEN [sendMsg(m, Note("rebooting", 0)) EXCEPT !.restart = TRUE]
  ELSE sendMsg(m, Note("unknown_cmd", 0))

(***************************************************************************)
(* The machine record of a call: the globals, the flash blobs, millis()    *)
(* and what the call has done so far.                                      *)
(***************************************************************************)
DefaultKey ==
  <<16, 50, 84, 118, 152, 186, 220, 254, 34, 68, 102, 136, 170, 204, 238, 0>>

\* the globals as the C++ initialisers leave them
InitGlobals ==
  [g_cfg |-> ZeroCfg, g_radio |-> FALSE, g_configSaved |-> FALSE,
   g_radioReady |-> FALSE, g_setupMode |-> FALSE,
   g_setupSaveRequested |-> FALSE, g_btActive |-> FALSE,
   g_meshRunning |-> FALSE, g_meshEncryptionEnabled |-> FALSE,
   g_weatherModeEnabled |-> FALSE, g_nodeId |-> 0, g_peerCount |-> 0,
   g_peers |-> [i \in 1..MAX_PEERS |-> [id |-> 0, lastSeenMs |-> 0]],
   g_sensorCount |-> 0, g_sensors |-> [i \in 1..MAX_SENSORS |-> ZeroSensor],
   g_meshKey |-> DefaultKey, g_meshTxCounter |-> Word32(0, 1),
   g_weatherIntervalMs |-> DefaultWeatherMs, g_lastWeatherTxMs |-> 0,
   g_dupCache |-> [i \in 1..DUP_CACHE_SIZE |-> 0], g_dupHead |-> 0,
   lastPrompt |-> 0, begun |-> <<>>]

Call(g, store, now) ==
  g @@ [nvs |-> store, now |-> now, serial |-> <<>>, ble |-> <<>>,
        air |-> <<>>, ret |-> FALSE, peerCalls |-> 0, keySets |-> 0,
        beginCalls |-> 0, lastState |-> NoState, fault |-> FALSE,
        restart |-> FALSE, enterSetup |-> FALSE, left |-> FALSE,
        accepted |-> FALSE, acceptedLen |-> 0, cmdNotes |-> 0,
        startInSetup |-> FALSE]

Globals(m) == [f \in DOMAIN InitGlobals |-> m[f]]

(***************************************************************************)
(* What the hardware answers during one call.                              *)
(***************************************************************************)
EnvOk ==
  [okAt |-> 1, err |-> -2, txOk |-> TRUE, aesOk |-> TRUE, nonce |-> RxNonce,
   rndKey |-> Fill(16, 7), reading |-> 1, ubCrash |-> FALSE]

Envs ==
  {EnvOk, [EnvOk EXCEPT !.okAt = 0], [EnvOk EXCEPT !.okAt = 14],
   [EnvOk EXCEPT !.txOk = FALSE, !.aesOk = FALSE],
   [EnvOk EXCEPT !.ubCrash = TRUE]}

(***************************************************************************)
(* Command lines the model types.                                          *)
(***************************************************************************)
Words(ws) == [i \in 1..Len(ws) |-> W(ws[i])]

CmdLines ==
  {Words(<<"bt", "on">>), Words(<<"bt", "off">>), Words(<<"help">>),
   Words(<<"show">>), Words(<<"info">>), Words(<<"setup">>),
   Words(<<"device", "heltec">>), Words(<<"device", "megamesh">>),
   Words(<<"device", "other">>),
   <<W("set"), W("freq"), Num(868100)>>, <<W("set"), W("sync"), Hex(52)>>,
   <<W("set"), W("cs"), Num(5000)>>, <<W("set"), W("wxint"), Num(100000)>>,
   <<W("set"), W("volume"), Num(1000)>>, Words(<<"set", "freq">>),
   Words(<<"save">>), Words(<<"init">>), Words(<<"autostart">>),
   Words(<<"startmesh">>), Words(<<"mesh", "scan">>),
   Words(<<"mesh", "peers">>), Words(<<"mesh", "key">>),
   Words(<<"mesh", "keygen">>), <<W("mesh"), W("keysend"), Num(46534000)>>,
   <<W("mesh"), W("key"), B(Fill(32, 97))>>,
   <<W("mesh"), W("key"), B(<<122, 122>>)>>,
   Words(<<"mesh", "enc", "on">>), Words(<<"mesh", "enc", "off">>),
   Words(<<"weather", "on">>), Words(<<"weather", "off">>),
   <<W("weather"), W("interval"), Num(100000)>>,
   <<W("weather"), W("add"), Num(4000), W("a")>>,
   <<W("weather"), W("add"), Num(4000)>>, Words(<<"weather", "clear">>),
   Words(<<"weather", "now">>),
   <<W("sendto"), Num(46534000), B(<<104, 105>>)>>,
   <<W("sendto"), Num(46534000)>>, <<W("send"), B(<<104, 105>>)>>,
   <<W("send"), B(Fill(MaxPayload + 1, 65))>>, Words(<<"reboot">>),
   Words(<<"status">>)}

(***************************************************************************)
(* setup(), the three parts of one loop() iteration, and one iteration of  *)
(* the sub-loop of startConfigMode.                                        *)
(***************************************************************************)
NoLine == <<>>

\* the branch of setup() for a node without a saved configuration
firstBoot(m) ==
  Bind(setDefaultsHeltec(sendMsg(m, Note("first_boot", 0))), LAMBDA m4 :
    startConfigEnter(IF ~m4.g_btActive THEN enableBluetoothVisible(m4)
                     ELSE m4))

\* a boot that goes on to loop() whatever loadConfig found
bootedAlways(m) ==
  sendMsg(sendSetupInfo(sendConfig(
            sendMsg(sendMsg(m, Note("cfg_loaded", 0)),
                    Note("setup_done", 0)))),
          Note("setup_available", 0))

\* setup() after loadConfig
booted(m) ==
  IF ~m.g_configSaved THEN firstBoot(m)
  ELSE sendMsg(sendSetupInfo(sendConfig(
                 sendMsg(sendMsg(m, Note("cfg_loaded", 0)),
                         Note("setup_done", 0)))),
               Note("setup_available", 0))

\* a boot that leaves the loaded btEnabled as it is
setupKeepBt(m) ==
  Bind(loadConfig(m), LAMBDA m1 :
    booted(sendMsg(enableBluetoothVisible(m1), Note("boot", 0))))

setup(m) ==
  Bind(loadConfig(m), LAMBDA m1 :
    booted(sendMsg(enableBluetoothVisible([m1 EXCEPT
                                             !.g_cfg.btEnabled = TRUE]),
                   Note("boot", 0))))

checkInputs(m, line, env) ==
  IF line = NoLine THEN m
  ELSE Bind(handleCommand(m, line, env), LAMBDA r :
         [r EXCEPT !.cmdNotes = Len(r.serial)])

\* i is the delivered sequence, 0 when receive() times out
loopReceive(m, i, env) ==
  IF m.g_meshRunning /\ m.g_radioReady /\ m.g_radio /\ i # 0
  THEN handleIncoming(m, RxFrameSeq[i], Len(RxFrameSeq[i]), env)
  ELSE m

loopWeather(m, env) ==
  IF m.g_meshRunning /\ m.g_weatherModeEnabled
     /\ U32(m.now - m.g_lastWeatherTxMs) >= m.g_weatherIntervalMs
  THEN sendWeatherPacket([m EXCEPT !.g_lastWeatherTxMs = m.now], env)
  ELSE m

\* one iteration of the sub-loop after its checkInputs
startConfigPoll(m, env) ==
  IF m.restart THEN m
  ELSE IF m.g_setupSaveRequested /\ m.g_radioReady
  THEN startConfigLeave(m, env)
  ELSE IF U32(m.now - m.lastPrompt) >= PromptMs
  THEN sendMsg([m EXCEPT !.lastPrompt = m.now], Note("cfg_status", 0))
  ELSE m

startConfigIter(m, line, env) ==
  startConfigPoll(checkInputs(m, line, env), env)

(***************************************************************************)
(* State machine of the node.                                              *)
(***************************************************************************)
EmptyStore == [cfg |-> NoBlob, wxcfg |-> NoBlob]

\* flash as an earlier run of saveConfig with the Heltec defaults left it
SavedStore == saveConfig(setDefaultsHeltec(Call(InitGlobals, EmptyStore, 0))).nvs

Pre(g) ==
  [setup |-> g.g_setupMode, ready |-> g.g_radioReady,
   running |-> g.g_meshRunning, saveReq |-> g.g_setupSaveRequested,
   txCounter |-> g.g_meshTxCounter, key |-> g.g_meshKey]

Probe(m, op, line, rxNow, rxBefore, accBefore) ==
  [op |-> op, line |-> line, rxNow |-> rxNow, rxBefore |-> rxBefore,
   acceptedBefore |-> accBefore,
   pre |-> Pre(fw), peerCalls |-> m.peerCalls, keySets |-> m.keySets,
   fault |-> m.fault, accepted |-> m.accepted,
   acceptedLen |-> m.acceptedLen, restart |-> m.restart, left |-> m.left,
   beginCalls |-> m.beginCalls, tableSame |-> m.g_peers = fw.g_peers,
   cmdNotes |-> m.cmdNotes, stored |-> m.nvs # nvs,
   startInSetup |-> m.startInSetup, now |-> m.now,
   dupSame |-> m.g_dupCache = fw.g_dupCache /\ m.g_dupHead = fw.g_dupHead]

NoProbe ==
  Probe(Call(InitGlobals, EmptyStore, 0), "none", NoLine, 0, 0, FALSE)

\* a restart that leaves g_meshKey as it was
DoneKeepKey(m, next) ==
  /\ fw' = IF m.restart THEN [InitGlobals EXCEPT !.g_meshKey = m.g_meshKey]
           ELSE Globals(m)
  /\ nvs' = m.nvs
  /\ serial' = m.serial
  /\ ble' = m.ble
  /\ air' = m.air
  /\ phase' = IF m.restart THEN "boot" ELSE next

\* the state a call leaves behind; a restart puts the globals back to their
\* initialisers and the main task at setup()
Done(m, next) ==
  /\ fw' = IF m.restart THEN InitGlobals ELSE Globals(m)
  /\ nvs' = m.nvs
  /\ serial' = m.serial
  /\ ble' = m.ble
  /\ air' = m.air
  /\ phase' = IF m.restart THEN "boot" ELSE next

\* the most recent delivery with no command or restart since
RxBefore == IF probe.rxNow # 0 THEN probe.rxNow ELSE probe.rxBefore

\* whether that delivery got past every check of handleMeshFrame
AccBefore == IF probe.rxNow # 0 THEN probe.accepted ELSE probe.acceptedBefore

\* the state after power-on: the globals at their initialisers, the flash
\* blobs one of stores, the inputs of the codec or peer table one of inputs
Start(stores, inputs) ==
  /\ fw = InitGlobals
  /\ nvs \in stores
  /\ clock = 0
  /\ phase = "boot"
  /\ blePhase = "idle"
  /\ serial = <<>>
  /\ ble = <<>>
  /\ air = <<>>
  /\ probe = [NoProbe EXCEPT !.pre = Pre(InitGlobals), !.tableSame = TRUE,
                             !.stored = FALSE]
  /\ used = [cmds |-> 0, rx |-> 0, boots |-> 0]
  /\ task = [main |-> NoLine, ble |-> NoLine]
  /\ io \in inputs

Init == Start({EmptyStore, SavedStore}, {<<>>})

Boot ==
  /\ phase = "boot"
  /\ task.main = NoLine
  /\ used.boots < MaxBoots
  /\ \E m \in {setup(Call(fw, nvs, clock))} :
       /\ Done(m, IF m.g_setupMode THEN "sub_boot" ELSE "inputs")
       /\ probe' = Probe(m, "boot", NoLine, 0, 0, FALSE)
  /\ used' = [used EXCEPT !.boots = @ + 1]
  /\ UNCHANGED <<clock, blePhase, task, io>>

CheckInputs(lines) ==
  /\ phase = "inputs"
  /\ task.main = NoLine
  /\ \E line \in lines \cup {NoLine}, env \in Envs :
       /\ line # NoLine => used.cmds < MaxCmds
       /\ \E m \in {checkInputs(Call(fw, nvs, clock), line, env)} :
            /\ Done(m, IF m.enterSetup THEN "sub_loop" ELSE "rx")
            /\ probe' = IF line = NoLine
                        THEN Probe(m, "idle", NoLine, 0, RxBefore, AccBefore)
                        ELSE Probe(m, "cmd", line, 0, 0, FALSE)
       /\ used' = IF line = NoLine THEN used
                  ELSE [used EXCEPT !.cmds = @ + 1]
  /\ UNCHANGED <<clock, blePhase, task, io>>

Receive(frames) ==
  /\ phase = "rx"
  /\ task.main = NoLine
  /\ \E i \in frames \cup {0}, env \in Envs :
       /\ i # 0 => /\ used.rx < MaxRx
                   /\ fw.g_meshRunning /\ fw.g_radioReady /\ fw.g_radio
       /\ \E m \in {loopReceive(Call(fw, nvs, clock), i, env)} :
            /\ Done(m, "wx")
            /\ probe' = Probe(m, IF i = 0 THEN "idle" ELSE "rx", NoLine, i,
                              RxBefore, AccBefore)
       /\ used' = IF i = 0 THEN used ELSE [used EXCEPT !.rx = @ + 1]
  /\ UNCHANGED <<clock, blePhase, task, io>>

WeatherTimer ==
  /\ phase = "wx"
  /\ task.main = NoLine
  /\ \E env \in Envs :
       \E m \in {loopWeather(Call(fw, nvs, clock), env)} :
         /\ Done(m, "inputs")
         /\ probe' = Probe(m, "wx", NoLine, 0, RxBefore, AccBefore)
  /\ UNCHANGED <<clock, blePhase, used, task, io>>

SubLoop(lines) ==
  /\ phase \in {"sub_boot", "sub_loop"}
  /\ task.main = NoLine
  /\ \E line \in lines \cup {NoLine}, env \in Envs :
       /\ line # NoLine => used.cmds < MaxCmds
       /\ \E m \in {startConfigIter(Call(fw, nvs, clock), line, env)} :
            /\ Done(m, IF ~m.left THEN phase
                       ELSE IF phase = "sub_boot" THEN "inputs" ELSE "rx")
            /\ probe' = IF line = NoLine
                        THEN Probe(m, "sub", NoLine, 0, RxBefore, AccBefore)
                        ELSE Probe(m, "cmd", line, 0, 0, FALSE)
       /\ used' = IF line = NoLine THEN used
                  ELSE [used EXCEPT !.cmds = @ + 1]
  /\ UNCHANGED <<clock, blePhase, task, io>>

Tick ==
  /\ clock < MaxTicks * PromptMs
  /\ clock' = clock + PromptMs
  /\ UNCHANGED <<fw, nvs, phase, blePhase, serial, ble, air, probe, used,
                 task, io>>

\* every command, one frame
Next ==
  \/ Boot
  \/ CheckInputs(CmdLines)
  \/ Receive({1})
  \/ WeatherTimer
  \/ SubLoop(CmdLines)
  \/ Tick

Spec == Init /\ [][Next]_vars

\* every frame, the commands that start the mesh and switch the cipher
RxLines ==
  {Words(<<"startmesh">>), Words(<<"autostart">>),
   Words(<<"mesh", "enc", "on">>)}

NextRx ==
  \/ Boot
  \/ CheckInputs(RxLines)
  \/ Receive(RxFrames)
  \/ WeatherTimer
  \/ SubLoop(RxLines)
  \/ Tick

SpecRx == Init /\ [][NextRx]_vars

\* the commands of the setup gate, no frame
SetupLines ==
  {Words(<<"setup">>), Words(<<"save">>), Words(<<"init">>),
   Words(<<"autostart">>), Words(<<"startmesh">>), Words(<<"reboot">>)}

NextSetup ==
  \/ Boot
  \/ CheckInputs(SetupLines)
  \/ Receive({})
  \/ WeatherTimer
  \/ SubLoop(SetupLines)
  \/ Tick

SpecSetup == Init /\ [][NextSetup]_vars

(***************************************************************************)
(* The frame codec on its own: sendMeshPacket of one node, the checks of   *)
(* handleMeshFrame of the node it addresses, and one flipped bit between.  *)
(***************************************************************************)
CodecTypes == {1, 2, 16, 32, 48, 49, 85}
CodecDsts == {BroadcastId, 46534}
\* a transmit counter with the nonce drawn for it
CodecStamps ==
  {[ctr |-> Word32(0, 1), nonce |-> RxNonce],
   [ctr |-> Word32(65535, 65535), nonce |-> Fill(8, 255)]}
CodecBytes == {0, 65, 255}
ShortPayloads == UNION {[1..n -> CodecBytes] : n \in 0..MaxShortLen}
LongPayload == [i \in 1..MaxPayload |-> (i * 7) % 256]

CodecInput(t, d, c, n, e, p) ==
  [type |-> t, dst |-> d, ctr |-> c, nonce |-> n, enc |-> e, payload |-> p]

CodecInputs ==
  {CodecInput(t, d, s.ctr, s.nonce, e, p) :
     t \in CodecTypes, d \in CodecDsts, s \in CodecStamps,
     e \in BOOLEAN, p \in ShortPayloads}
  \cup {CodecInput(t, BroadcastId, Word32(65535, 65535), RxNonce, e,
                   LongPayload) : t \in {1, 32}, e \in BOOLEAN}

\* the sending node with its mesh running, and the node the frame reaches
Sender(in) ==
  [Call(InitGlobals, EmptyStore, 0) EXCEPT
     !.g_radio = TRUE, !.g_radioReady = TRUE, !.g_meshRunning = TRUE,
     !.g_nodeId = MyMac16, !.g_meshTxCounter = in.ctr,
     !.g_meshEncryptionEnabled = in.enc]

Receiver(in) == [Sender(in) EXCEPT !.g_nodeId = 46534]

\* bit k of the buffer inverted, bit 0 the lowest bit of the first byte
FlipBit(buf, k) == [buf EXCEPT ![k \div 8 + 1] = Xor8(@, 2 ^ (k % 8))]

Effects(m) == m.peerCalls + m.keySets + Len(m.air) + Len(m.serial)

CodecStart(in) ==
  [stage |-> "in", in |-> in, frame |-> <<>>, out |-> Rejected("none"),
   plain |-> <<>>, bit |-> 0, effects |-> 0]

InitCodec == Start({EmptyStore}, {CodecStart(in) : in \in CodecInputs})

Encode ==
  /\ io.stage = "in"
  /\ \E m \in {sendMeshPacket(Sender(io.in), io.in.type, io.in.dst,
                              io.in.payload, Len(io.in.payload),
                              [EnvOk EXCEPT !.nonce = io.in.nonce])} :
       /\ m.ret
       /\ io' = [io EXCEPT !.stage = "sent", !.frame = m.air[1]]
  /\ UNCHANGED <<fw, nvs, clock, phase, blePhase, serial, ble, air, probe,
                 used, task>>

Decode ==
  /\ io.stage = "sent"
  /\ \E f \in {ParseFrame(io.frame, Len(io.frame))} :
       io' = [io EXCEPT !.stage = "decoded", !.out = f,
                        !.plain = meshDecode(Receiver(io.in), f, EnvOk).data]
  /\ UNCHANGED <<fw, nvs, clock, phase, blePhase, serial, ble, air, probe,
                 used, task>>

Damage ==
  /\ io.stage = "sent"
  /\ \E k \in 0..(8 * Len(io.frame) - 1) :
       \E f \in {ParseFrame(FlipBit(io.frame, k), Len(io.frame))} :
         \E m \in {frameParsed(Receiver(io.in), f, EnvOk)} :
           io' = [io EXCEPT !.stage = "damaged", !.bit = k, !.out = f,
                            !.effects = Effects(m)]
  /\ UNCHANGED <<fw, nvs, clock, phase, blePhase, serial, ble, air, probe,
                 used, task>>

NextCodec == Encode \/ Decode \/ Damage

SpecCodec == InitCodec /\ [][NextCodec]_vars

\* C2: the frame sendMeshPacket builds for a type, destination and payload
\* of 0..120 bytes passes the magic, checksum and length checks of the
\* receiver and gives back the same type, source, destination, counter,
\* nonce, payload length and payload bytes.
C2_RoundTrip ==
  io.stage = "decoded"
  => /\ io.out.ok
     /\ io.out.type = io.in.type
     /\ io.out.src = MyMac16
     /\ io.out.dst = io.in.dst
     /\ io.out.ctr = io.in.ctr
     /\ io.out.nonce = io.in.nonce
     /\ io.out.payloadLen = Len(io.in.payload)
     /\ Len(io.frame) = HeaderLen + Len(io.in.payload) + 2
     /\ io.plain = io.in.payload
     /\ (io.in.type \in PlainTypes \/ ~io.in.enc)
          => io.out.payload = io.in.payload

\* an encrypted message frame with the largest payload has been decoded
C2_Witness ==
  /\ io.stage = "decoded"
  /\ io.in.type = 32
  /\ io.in.enc
  /\ Len(io.in.payload) = MaxPayload
  /\ io.out.payload # io.in.payload
  /\ io.plain = io.in.payload

\* C9: an encoded frame with any one bit flipped is rejected by the magic,
\* checksum or length check and causes no peer update, no transmission, no
\* key change and no notification.
C9_BitFlipRejected ==
  io.stage = "damaged"
  => /\ ~io.out.ok
     /\ io.out.why \in {"magic", "crc", "length"}
     /\ io.effects = 0

\* the last payload bit of a frame with the largest payload was flipped and
\* the checksum comparison failed
C9_Witness ==
  /\ io.stage = "damaged"
  /\ Len(io.in.payload) = MaxPayload
  /\ io.bit = 8 * (HeaderLen + MaxPayload) - 1
  /\ io.out.why = "crc"

\* C15: a frame of one of the four plaintext types carries the payload
\* bytes as given and is read on receipt without decryption, whatever the
\* encryption flag; a frame of any other type carries what encryptCtr made
\* of the payload and is read through decryptCtr.
C15_PlainTypesBypassCipher ==
  io.stage = "decoded"
  => IF io.in.type \in PlainTypes
     THEN /\ io.out.payload = io.in.payload
          /\ io.plain = io.out.payload
     ELSE /\ io.out.payload =
               encryptCtr(io.in.enc, DefaultKey, io.in.payload, io.in.nonce,
                          io.in.ctr, TRUE).data
          /\ io.plain =
               decryptCtr(io.in.enc, DefaultKey, io.out.payload,
                          io.out.nonce, io.out.ctr, TRUE).data

\* a key-exchange frame was sent and read with encryption switched on
C15_Witness ==
  /\ io.stage = "decoded"
  /\ io.in.type = 48
  /\ io.in.enc
  /\ io.in.payload # <<>>
  /\ io.out.payload = io.in.payload
  /\ io.plain = io.in.payload

(***************************************************************************)
(* The cipher on its own: encryptCtr, decryptCtr on its result, and        *)
(* sendMeshPacket with a cipher that may fail.                             *)
(***************************************************************************)
CipherKeys == {DefaultKey, Fill(16, 0), Fill(16, 255)}

CipherStart(k, s, p, e, a, t) ==
  [stage |-> "in", key |-> k, ctr |-> s.ctr, nonce |-> s.nonce,
   payload |-> p, enabled |-> e, aesOk |-> a, type |-> t,
   enc |-> [ok |-> FALSE, data |-> <<>>],
   dec |-> [ok |-> FALSE, data |-> <<>>],
   sent |-> [ret |-> FALSE, air |-> <<>>, ctr |-> s.ctr]]

InitCipher ==
  Start({EmptyStore},
        {CipherStart(k, s, p, e, a, t) :
           k \in CipherKeys, s \in CodecStamps,
           p \in ShortPayloads \cup {LongPayload},
           e \in BOOLEAN, a \in BOOLEAN, t \in {2, 16, 32}})

Encrypt ==
  /\ io.stage = "in"
  /\ io' = [io EXCEPT !.stage = "enc",
                      !.enc = encryptCtr(io.enabled, io.key, io.payload,
                                         io.nonce, io.ctr, io.aesOk)]
  /\ UNCHANGED <<fw, nvs, clock, phase, blePhase, serial, ble, air, probe,
                 used, task>>

Decrypt ==
  /\ io.stage = "enc"
  /\ io.enc.ok
  /\ io' = [io EXCEPT !.stage = "dec",
                      !.dec = decryptCtr(io.enabled, io.key, io.enc.data,
                                         io.nonce, io.ctr, io.aesOk)]
  /\ UNCHANGED <<fw, nvs, clock, phase, blePhase, serial, ble, air, probe,
                 used, task>>

SendPacket ==
  /\ io.stage = "in"
  /\ \E m \in {sendMeshPacket(
                 [Call(InitGlobals, EmptyStore, 0) EXCEPT
                    !.g_radio = TRUE, !.g_radioReady = TRUE,
                    !.g_meshRunning = TRUE, !.g_nodeId = MyMac16,
                    !.g_meshKey = io.key, !.g_meshTxCounter = io.ctr,
                    !.g_meshEncryptionEnabled = io.enabled],
                 io.type, BroadcastId, io.payload, Len(io.payload),
                 [EnvOk EXCEPT !.nonce = io.nonce, !.aesOk = io.aesOk])} :
       io' = [io EXCEPT !.stage = "sent",
                        !.sent = [ret |-> m.ret, air |-> m.air,
                                  ctr |-> m.g_meshTxCounter]]
  /\ UNCHANGED <<fw, nvs, clock, phase, blePhase, serial, ble, air, probe,
                 used, task>>

NextCipher == Encrypt \/ Decrypt \/ SendPacket

SpecCipher == InitCipher /\ [][NextCipher]_vars

\* C14: with encryption enabled, a type that is not one of the plaintext
\* types and a cipher that fails, sendMeshPacket hands nothing to the
\* radio, returns failure and leaves the transmit counter as it was.
C14_CipherFailureAborts ==
  (/\ io.stage = "sent"
   /\ io.enabled
   /\ io.type \notin PlainTypes
   /\ ~io.aesOk)
  => (~io.sent.ret /\ io.sent.air = <<>> /\ io.sent.ctr = io.ctr)

\* an encrypted message send met a failing cipher
C14_Witness ==
  /\ io.stage = "sent"
  /\ io.enabled
  /\ io.type = 32
  /\ ~io.aesOk
  /\ Len(io.payload) = MaxPayload
  /\ ~io.sent.ret

\* C16: decryptCtr of what encryptCtr made of a payload, with the same key,
\* nonce, counter and encryption flag, is the payload; with encryption
\* disabled encryptCtr returns the payload unchanged.
C16_CipherRoundTrip ==
  /\ io.stage = "dec" => (io.dec.ok /\ io.dec.data = io.payload)
  /\ (io.stage = "enc" /\ ~io.enabled)
       => (io.enc.ok /\ io.enc.data = io.payload)
  /\ (io.stage = "enc" /\ io.enabled /\ io.aesOk) => io.enc.ok

\* the largest payload was encrypted to other bytes and decrypted back
C16_Witness ==
  /\ io.stage = "dec"
  /\ io.enabled
  /\ Len(io.payload) = MaxPayload
  /\ io.enc.data # io.payload
  /\ io.dec.data = io.payload

(***************************************************************************)
(* Radio bringup on its own: initRadioRobust called on a configuration     *)
(* with a driver that answers RADIOLIB_ERR_NONE from call okAt on.         *)
(***************************************************************************)
BringupCfgs ==
  {[c EXCEPT !.tcxoVoltage = t, !.pwr = p] :
     c \in {HeltecCfg(CFG_MAGIC), WroomCfg(CFG_MAGIC)},
     t \in {0, 1600, 1800, 3300}, p \in {2, 14, 22}}

BringupStart(cfg, okAt, emit) ==
  [stage |-> "in", cfg |-> cfg, env |-> [EnvOk EXCEPT !.okAt = okAt],
   emit |-> emit, ret |-> FALSE, after |-> cfg, ready |-> FALSE,
   notes |-> <<>>, calls |-> 0]

InitBringup ==
  Start({EmptyStore},
        {BringupStart(c, k, e) :
           c \in BringupCfgs, k \in 0..(2 * TriesPerPass + MaxBeyond),
           e \in BOOLEAN})

Bringup ==
  /\ io.stage = "in"
  /\ \E m \in {initRadioRobust([Call(InitGlobals, EmptyStore, 0) EXCEPT
                                  !.g_cfg = io.cfg],
                               io.emit, io.env)} :
       io' = [io EXCEPT !.stage = "done", !.ret = m.ret, !.after = m.g_cfg,
                        !.ready = m.g_radioReady, !.notes = m.serial,
                        !.calls = m.beginCalls]
  /\ UNCHANGED <<fw, nvs, clock, phase, blePhase, serial, ble, air, probe,
                 used, task>>

NextBringup == Bringup

SpecBringup == InitBringup /\ [][NextBringup]_vars

\* the begin calls initRadioRobust makes when none succeeds: one pass, and
\* a second one for a Heltec board
Attempts(cfg) == IF cfg.deviceType = 0 THEN 2 * TriesPerPass ELSE TriesPerPass

\* combination number k of a pass, power {configured, 14, 10} outside and
\* voltage {configured, 1.8, 1.6, 0.0} inside
Combo(pwr, tcxo, k) ==
  [pwr |-> <<pwr, 14, 10>>[((k - 1) \div 4) + 1],
   tcxo |-> <<tcxo, 1800, 1600, 0>>[((k - 1) % 4) + 1]]

\* the configured voltage at the start of the pass of call k: the second
\* pass starts with enforceHeltecPins, which replaces a zero voltage
PassTcxo(cfg, k) ==
  IF k > TriesPerPass /\ cfg.tcxoVoltage <= 10 THEN 1800
  ELSE cfg.tcxoVoltage

\* C12: when bringup succeeds, tcxoVoltage and pwr of the configuration are
\* those of the first combination, in iteration order, for which the driver
\* answered success; with the third combination the first to succeed the
\* configuration holds the third combination.
C12_FirstWorkingCommitted ==
  (io.stage = "done" /\ io.ret)
  => /\ io.env.okAt \in 1..Attempts(io.cfg)
     /\ io.calls = io.env.okAt
     /\ io.after.pwr =
          Combo(io.cfg.pwr, PassTcxo(io.cfg, io.env.okAt),
                ((io.env.okAt - 1) % TriesPerPass) + 1).pwr
     /\ io.after.tcxoVoltage =
          Combo(io.cfg.pwr, PassTcxo(io.cfg, io.env.okAt),
                ((io.env.okAt - 1) % TriesPerPass) + 1).tcxo
     /\ (io.env.okAt = 3)
          => (io.after.tcxoVoltage = 1600 /\ io.after.pwr = io.cfg.pwr)

\* the first two combinations failed, the third succeeded, and the voltage
\* is no longer the configured one
C12_Witness ==
  /\ io.stage = "done"
  /\ io.ret
  /\ io.env.okAt = 3
  /\ io.cfg.tcxoVoltage = 3300
  /\ io.after.tcxoVoltage = 1600

\* C13: when every begin call fails, bringup returns failure, the radio is
\* not ready and radio_err carries the status of the last begin call; when
\* one succeeds the radio is ready and radio_ready is emitted instead.
C13_FailureCarriesLastCode ==
  io.stage = "done"
  => /\ io.ret <=> io.env.okAt \in 1..Attempts(io.cfg)
     /\ io.ready <=> io.ret
     /\ (~io.ret /\ io.emit)
          => io.notes = <<Note("radio_err",
                               ErrOf(io.env, Attempts(io.cfg)))>>
     /\ (io.ret /\ io.emit)
          => /\ io.notes[Len(io.notes)] = Note("radio_ready", 0)
             /\ \A i \in DOMAIN io.notes : io.notes[i].evt # "radio_err"
     /\ ~io.emit => io.notes = <<>>

\* both passes of a Heltec board failed and radio_err was sent
C13_Witness ==
  /\ io.stage = "done"
  /\ ~io.ret
  /\ io.emit
  /\ io.cfg.deviceType = 0
  /\ io.calls = 2 * TriesPerPass
  /\ io.notes = <<Note("radio_err", ErrOf(io.env, 2 * TriesPerPass))>>


(***************************************************************************)
(* initRadioRobust over configurations whose pins were moved.              *)
(***************************************************************************)
\* the pin fields of a configuration
PinsOf(c) ==
  <<c.csPin, c.resetPin, c.busyPin, c.dioPin, c.sclkPin, c.misoPin, c.mosiPin,
    c.nssPin, c.rstPin, c.dio0Pin, c.dio1Pin>>

\* both boards with the chip select and the reset line moved
MovedCfgs ==
  {[c EXCEPT !.csPin = 4, !.nssPin = 4, !.resetPin = 2, !.rstPin = 2,
             !.tcxoVoltage = t] :
     c \in {HeltecCfg(CFG_MAGIC), WroomCfg(CFG_MAGIC)}, t \in {0, 1600}}

InitPasses ==
  Start({EmptyStore},
        {BringupStart(c, k, e) :
           c \in MovedCfgs, k \in 0..(2 * TriesPerPass + MaxBeyond),
           e \in BOOLEAN})

NextPasses == Bringup

SpecPasses == InitPasses /\ [][NextPasses]_vars

\* C30: initRadioRobust returns after at most 12 begin calls for a board
\* that is not a Heltec and at most 24 for a Heltec (deviceType 0); it
\* makes more than 12 only when the board is a Heltec and each of the
\* first 12 failed, and then the pins are those enforceHeltecPins sets.
C30_BringupBounded ==
  io.stage = "done"
  => /\ io.calls \in 1..Attempts(io.cfg)
     /\ io.cfg.deviceType # 0 => io.calls <= TriesPerPass
     /\ io.calls > TriesPerPass
          => /\ io.cfg.deviceType = 0
             /\ io.env.okAt \notin 1..TriesPerPass
             /\ PinsOf(io.after) = PinsOf(HeltecCfg(CFG_MAGIC))

\* a Heltec board with moved pins: the first pass failed, the second
\* succeeded at its first call, on the pins of the board
C30_Witness ==
  /\ io.stage = "done"
  /\ io.cfg.deviceType = 0
  /\ io.cfg.csPin = 4
  /\ io.env.okAt = TriesPerPass + 1
  /\ io.calls = TriesPerPass + 1
  /\ io.ret
  /\ io.after.csPin = 8
  /\ io.after.nssPin = 8


(***************************************************************************)
(* loadConfig on its own, over the blobs flash may hold.                   *)
(***************************************************************************)
\* a blob of the legacy layout
LegacyBlob(magic, dev, cs, rst, tcxo, bt) ==
  [len |-> LegacySize,
   data |-> [magic |-> magic, deviceType |-> dev, csPin |-> cs,
             resetPin |-> rst, busyPin |-> 26, dioPin |-> 27,
             frequency |-> 433000, bandwidth |-> 250000,
             spreadingFactor |-> 9, codingRate |-> 7, syncWord |-> 52,
             preambleLength |-> 12, tcxoVoltage |-> tcxo,
             useDio2AsRfSwitch |-> TRUE, btEnabled |-> bt]]

LegacyBlobs ==
  {LegacyBlob(mg, dev, cs, rst, tcxo, bt) :
     mg \in {CFG_MAGIC, 0}, dev \in {0, 1}, cs \in {5, 8}, rst \in {12, 14},
     tcxo \in {0, 1600}, bt \in BOOLEAN}

FullBlobs ==
  {[len |-> CfgSize, data |-> c] :
     c \in {HeltecCfg(CFG_MAGIC), WroomCfg(CFG_MAGIC), HeltecCfg(0),
            [HeltecCfg(CFG_MAGIC) EXCEPT !.csPin = 5, !.tcxoVoltage = 0]}}

LoadStores ==
  {[cfg |-> b, wxcfg |-> NoBlob] : b \in LegacyBlobs \cup FullBlobs \cup {NoBlob}}

InitLoad ==
  Start(LoadStores, {[stage |-> "in", ret |-> FALSE, cfg |-> ZeroCfg,
                      saved |-> FALSE]})

Load ==
  /\ io.stage = "in"
  /\ \E m \in {loadConfig(Call(InitGlobals, nvs, 0))} :
       io' = [stage |-> "loaded", ret |-> m.ret, cfg |-> m.g_cfg,
              saved |-> m.g_configSaved]
  /\ UNCHANGED <<fw, nvs, clock, phase, blePhase, serial, ble, air, probe,
                 used, task>>

NextLoad == Load

SpecLoad == InitLoad /\ [][NextLoad]_vars

\* loadConfig has run on a blob of the legacy layout with the right magic
LegacyLoaded ==
  /\ io.stage = "loaded"
  /\ nvs.cfg.len = LegacySize
  /\ nvs.cfg.data.magic = CFG_MAGIC

\* the fields the legacy branch sets for a board that is not the Heltec
WroomUpgrade(old, c) ==
  /\ c.pwr = 17
  /\ c.sclkPin = 18 /\ c.misoPin = 19 /\ c.mosiPin = 23
  /\ c.nssPin = old.csPin
  /\ c.rstPin = old.resetPin
  /\ c.dio0Pin = old.busyPin
  /\ c.dio1Pin = old.dioPin

\* C17 as stated: loading a legacy blob with the right magic succeeds, every
\* legacy field is copied unchanged and, for deviceType 1, pwr = 17,
\* sclk/miso/mosi = 18/19/23 and nss, rst, dio0, dio1 are the legacy cs,
\* reset, busy and dio.
C17_LegacyCopiedUnchanged ==
  LegacyLoaded
  => /\ io.ret
     /\ \A f \in LegacyFields : io.cfg[f] = nvs.cfg.data[f]
     /\ nvs.cfg.data.deviceType = 1 => WroomUpgrade(nvs.cfg.data, io.cfg)

\* the legacy fields enforceHeltecPins writes
HeltecForced == {"csPin", "resetPin", "busyPin", "dioPin", "tcxoVoltage"}

\* C17 (amended): loading a legacy blob with the right magic succeeds; for
\* deviceType 1 every legacy field is copied unchanged and pwr = 17,
\* sclk/miso/mosi = 18/19/23, nss, rst, dio0, dio1 are the legacy cs, reset,
\* busy and dio; for deviceType 0 pwr = 14, the legacy pins are replaced by
\* the Heltec pins 8/12/13/14, a TCXO voltage of at most 0.01 V becomes
\* 1.8 V, and every other legacy field is copied unchanged.
C17_LegacyUpgraded ==
  LegacyLoaded
  => /\ io.ret
     /\ io.saved
     /\ \A f \in LegacyFields \ HeltecForced : io.cfg[f] = nvs.cfg.data[f]
     /\ nvs.cfg.data.deviceType = 1
          => /\ \A f \in HeltecForced : io.cfg[f] = nvs.cfg.data[f]
             /\ WroomUpgrade(nvs.cfg.data, io.cfg)
     /\ nvs.cfg.data.deviceType = 0
          => /\ io.cfg.pwr = 14
             /\ io.cfg.csPin = 8 /\ io.cfg.resetPin = 12
             /\ io.cfg.busyPin = 13 /\ io.cfg.dioPin = 14
             /\ io.cfg.nssPin = 8 /\ io.cfg.rstPin = 12
             /\ io.cfg.tcxoVoltage =
                  IF nvs.cfg.data.tcxoVoltage <= 10 THEN 1800
                  ELSE nvs.cfg.data.tcxoVoltage

\* a legacy blob of deviceType 1 with its own pins was loaded
C17_Witness ==
  /\ LegacyLoaded
  /\ nvs.cfg.data.deviceType = 1
  /\ nvs.cfg.data.csPin = 5
  /\ io.ret
  /\ io.cfg.nssPin = 5
  /\ io.cfg.pwr = 17


(***************************************************************************)
(* Boot over the blobs flash may hold, then the setup commands.            *)
(***************************************************************************)
BootBlobs ==
  {NoBlob,
   [len |-> CfgSize, data |-> HeltecCfg(CFG_MAGIC)],
   [len |-> CfgSize, data |-> WroomCfg(CFG_MAGIC)],
   [len |-> CfgSize, data |-> WroomCfg(CFG_MAGIC + 1)],
   [len |-> CfgSize + LegacySize, data |-> WroomCfg(CFG_MAGIC)],
   LegacyBlob(CFG_MAGIC, 1, 5, 14, 1600, FALSE),
   LegacyBlob(0, 1, 5, 14, 1600, FALSE)}

InitBoot == Start({[cfg |-> b, wxcfg |-> NoBlob] : b \in BootBlobs}, {<<>>})

SpecBoot == InitBoot /\ [][NextSetup]_vars

\* what loadConfig accepts: a blob of one of the two sizes with the magic
ValidBlob(b) ==
  /\ b.len \in {CfgSize, LegacySize}
  /\ b.data.magic = CFG_MAGIC

\* C18: when setup() has run: if flash held no blob of a recognised size
\* with the right magic, every setting of the configuration is the Heltec
\* default (the magic tag is no setting: only saveConfig writes it) and the
\* node is in the setup sub-loop, not in loop(); if it held a valid blob
\* the node is not in setup mode, is about to run loop() and the mesh is
\* not started.
C18_BootDecision ==
  probe.op = "boot"
  => IF ValidBlob(nvs.cfg)
     THEN /\ ~fw.g_setupMode
          /\ phase = "inputs"
          /\ ~fw.g_meshRunning
          /\ fw.g_configSaved
     ELSE /\ fw.g_setupMode
          /\ phase = "sub_boot"
          /\ ~fw.g_meshRunning
          /\ \A f \in DOMAIN fw.g_cfg \ {"magic"} :
               fw.g_cfg[f] = HeltecCfg(0)[f]

\* a blob of the right size with a wrong magic, holding the other board's
\* settings, was met at boot
C18_Witness ==
  /\ probe.op = "boot"
  /\ nvs.cfg.len = CfgSize
  /\ nvs.cfg.data.magic # CFG_MAGIC
  /\ nvs.cfg.data.deviceType = 1
  /\ fw.g_setupMode
  /\ fw.g_cfg.deviceType = 0

(***************************************************************************)
(* The peer table on its own: updatePeer called with no id, the first and  *)
(* the last id of the table, and an id the table does not hold.            *)
(***************************************************************************)
PeerIds ==
  {0, 46534 + fw.g_peerCount}
  \cup (IF fw.g_peerCount = 0 THEN {}
        ELSE {46534, 46534 + fw.g_peerCount - 1})

InitPeers ==
  Start({EmptyStore},
        {[calls |-> 0, id |-> 0, before |-> 0, known |-> FALSE]})

PeerCall ==
  /\ io.calls < MaxPeerCalls
  /\ \E id \in PeerIds :
       \E m \in {updatePeer(Call(fw, nvs, clock), id)} :
         /\ fw' = Globals(m)
         /\ probe' = Probe(m, "peer", NoLine, 0, 0, FALSE)
         /\ io' = [calls |-> io.calls + 1, id |-> id,
                   before |-> fw.g_peerCount,
                   known |-> PeerSlot(fw, id) # 0]
  /\ UNCHANGED <<nvs, clock, phase, blePhase, serial, ble, air, used, task>>

NextPeers == PeerCall \/ Tick

SpecPeers == InitPeers /\ [][NextPeers]_vars

\* C10: whatever ids updatePeer is called with, the peer count stays at or
\* below 16, no slot past the last is written, and a call with an id the
\* full table does not hold leaves the table as it was.
C10_PeerBound ==
  /\ fw.g_peerCount <= MAX_PEERS
  /\ ~probe.fault
  /\ (probe.op = "peer" /\ io.before = MAX_PEERS /\ ~io.known)
       => (probe.tableSame /\ fw.g_peerCount = MAX_PEERS)

\* updatePeer was called with an unseen id on a full table
C10_Witness ==
  /\ probe.op = "peer"
  /\ io.before = MAX_PEERS
  /\ ~io.known
  /\ io.id # 0
  /\ io.calls > MAX_PEERS

(***************************************************************************)
(* The two tasks that run handleCommand: the main task (setup() and        *)
(* loop()) for serial lines, and the Bluetooth stack's task, which calls   *)
(* RxCB::onWrite and through it handleCommand for every line written to    *)
(* the characteristic.  A call of handleCommand takes time (radio bringup, *)
(* flash writes, the delays of sendMsg): it is entered in one step and its *)
(* effects land when it returns.                                           *)
(***************************************************************************)
TaskLines ==
  {Words(<<"setup">>), Words(<<"save">>), Words(<<"startmesh">>),
   Words(<<"bt", "off">>)}

\* a restart ends both tasks
AfterCall(m, who, nextBle) ==
  /\ task' = IF m.restart THEN [main |-> NoLine, ble |-> NoLine]
             ELSE [task EXCEPT ![who] = NoLine]
  /\ blePhase' = IF m.restart THEN "idle" ELSE nextBle

MainBegin ==
  /\ phase \in {"inputs", "sub_boot", "sub_loop"}
  /\ task.main = NoLine
  /\ used.cmds < MaxCmds
  /\ \E line \in TaskLines : task' = [task EXCEPT !.main = line]
  /\ used' = [used EXCEPT !.cmds = @ + 1]
  /\ UNCHANGED <<fw, nvs, clock, phase, blePhase, serial, ble, air, probe,
                 io>>

MainEnd ==
  /\ task.main # NoLine
  /\ \E env \in Envs :
       \E m \in {IF phase = "inputs"
                 THEN checkInputs(Call(fw, nvs, clock), task.main, env)
                 ELSE startConfigIter(Call(fw, nvs, clock), task.main,
                                      env)} :
         /\ Done(m, IF phase = "inputs"
                    THEN (IF m.enterSetup THEN "sub_loop" ELSE "rx")
                    ELSE IF ~m.left THEN phase
                    ELSE IF phase = "sub_boot" THEN "inputs" ELSE "rx")
         /\ probe' = Probe(m, "cmd", task.main, 0, 0, FALSE)
         /\ AfterCall(m, "main", blePhase)
  /\ UNCHANGED <<clock, used, io>>

BleBegin ==
  /\ fw.g_btActive
  /\ blePhase = "idle"
  /\ used.cmds < MaxCmds
  /\ \E line \in TaskLines : task' = [task EXCEPT !.ble = line]
  /\ blePhase' = "cmd"
  /\ used' = [used EXCEPT !.cmds = @ + 1]
  /\ UNCHANGED <<fw, nvs, clock, phase, serial, ble, air, probe, io>>

BleEnd ==
  /\ blePhase = "cmd"
  /\ \E env \in Envs :
       \E m \in {checkInputs(Call(fw, nvs, clock), task.ble, env)} :
         /\ Done(m, phase)
         /\ probe' = Probe(m, "blecmd", task.ble, 0, 0, FALSE)
         /\ AfterCall(m, "ble", IF m.enterSetup THEN "sub" ELSE "idle")
  /\ UNCHANGED <<clock, used, io>>

\* the Bluetooth task inside startConfigMode, entered by a setup line
BleSub ==
  /\ blePhase = "sub"
  /\ \E env \in Envs :
       \E m \in {startConfigIter(Call(fw, nvs, clock), NoLine, env)} :
         /\ Done(m, phase)
         /\ probe' = Probe(m, "blesub", NoLine, 0, 0, FALSE)
         /\ AfterCall(m, "ble", IF m.left THEN "idle" ELSE "sub")
  /\ UNCHANGED <<clock, used, io>>

NextTasks ==
  \/ Boot
  \/ MainBegin
  \/ MainEnd
  \/ BleBegin
  \/ BleEnd
  \/ BleSub
  \/ CheckInputs({})
  \/ Receive({})
  \/ WeatherTimer
  \/ SubLoop({})
  \/ Tick

SpecTasks == Init /\ [][NextTasks]_vars

\* C7: handleCommand runs in one control-flow context only: the main task
\* and the Bluetooth task are never both inside it.
C7_SingleContext == ~(task.main # NoLine /\ task.ble # NoLine)

(***************************************************************************)
(* Properties of the receive path, under SpecRx.                           *)
(***************************************************************************)
RxParsed(i) == ParseFrame(RxFrameSeq[i], Len(RxFrameSeq[i]))

\* a frame that passes every check of the frame format and is addressed to
\* this node or to everyone
RxWellFormed(i) ==
  /\ RxParsed(i).ok
  /\ RxParsed(i).payloadLen <= MaxPayload
  /\ RxParsed(i).dst \in {BroadcastId, fw.g_nodeId}

\* what a processed frame leaves behind: a peer update, a key change, a
\* transmission or a notification
NoMeshEffect ==
  /\ probe.peerCalls = 0
  /\ probe.keySets = 0
  /\ air = <<>>
  /\ serial = <<>>
  /\ ble = <<>>

\* C1: when a well-formed frame for this node is delivered a second time
\* right after a delivery that was processed, the second delivery is
\* dropped: no peer update, no key change, no response, no notification.
C1_DedupIdempotent ==
  (/\ probe.op = "rx"
   /\ probe.rxNow = probe.rxBefore
   /\ probe.acceptedBefore
   /\ RxWellFormed(probe.rxNow))
  => (~probe.accepted /\ NoMeshEffect)

\* C3: every frame that gets past the checks of handleMeshFrame carries a
\* payload of at most 120 bytes, so the copy into the 120-byte plaintext
\* buffer stays inside it.
C3_AcceptedFits ==
  probe.accepted => (probe.acceptedLen <= MaxPayload /\ ~probe.fault)

\* C8: a received buffer that fails the magic, CRC or length check is
\* dropped with no peer update, no response and no notification at all.
C8_IntegrityDropSilent ==
  (/\ probe.op = "rx"
   /\ RxParsed(probe.rxNow).why \in {"magic", "crc", "length"})
  => NoMeshEffect

\* C25: a received buffer that fails the checks of the frame format (magic,
\* CRC, length) is neither looked up in nor written to the dedup ring: the
\* ring and its position are as they were before the buffer came.
C25_ValidatedBeforeDedup ==
  (/\ probe.op = "rx"
   /\ ~RxParsed(probe.rxNow).ok)
  => probe.dupSame


(***************************************************************************)
(* The commands that bring up the radio and start the mesh.                *)
(***************************************************************************)
StartLines ==
  {Words(<<"init">>), Words(<<"startmesh">>), Words(<<"autostart">>),
   Words(<<"mesh", "scan">>), Words(<<"setup">>), Words(<<"save">>)}

NextStart ==
  \/ Boot
  \/ CheckInputs(StartLines)
  \/ Receive({})
  \/ WeatherTimer
  \/ SubLoop(StartLines)
  \/ Tick

SpecStart == Init /\ [][NextStart]_vars

\* C26 as stated: whenever g_meshRunning is set, g_radioReady is set.
C26_RunningImpliesReady == fw.g_meshRunning => fw.g_radioReady

\* C26 (amended): g_meshRunning is set only by a step that leaves
\* g_radioReady set, and once set it stays set until a restart; a later
\* bringup that fails clears g_radioReady and leaves g_meshRunning set.
C26_StartedOnlyWhenReady ==
  /\ (~probe.pre.running /\ fw.g_meshRunning) => fw.g_radioReady
  /\ (probe.pre.running /\ ~probe.restart /\ probe.op # "none")
       => fw.g_meshRunning

\* the mesh was started by a command that also brought the radio up
C26_Witness ==
  /\ probe.op = "cmd"
  /\ ~probe.pre.running
  /\ ~probe.pre.ready
  /\ probe.beginCalls > 0
  /\ fw.g_meshRunning
  /\ fw.g_radioReady


(***************************************************************************)
(* The set and device commands, over stored configurations of both boards  *)
(* and both layouts.                                                       *)
(***************************************************************************)
\* set lines whose value is outside what setup_info gives for the key, or
\* is no number, with the field set and the value toInt() makes of it
BadSets ==
  {[line |-> <<W("set"), W("sf"), Num(99000)>>,
    field |-> "spreadingFactor", val |-> 99],
   [line |-> <<W("set"), W("sf"), W("abc")>>,
    field |-> "spreadingFactor", val |-> 0],
   [line |-> <<W("set"), W("pwr"), Num(30000)>>, field |-> "pwr", val |-> 30],
   [line |-> <<W("set"), W("preamble"), Num(2000)>>,
    field |-> "preambleLength", val |-> 2],
   [line |-> <<W("set"), W("cs"), Num(99000)>>, field |-> "csPin", val |-> 99]}

SetLines ==
  {b.line : b \in BadSets}
  \cup {<<W("set"), W("nss"), Num(4000)>>, <<W("set"), W("reset"), Num(2000)>>,
        <<W("set"), W("rst"), Num(15000)>>, <<W("set"), W("busy"), Num(27000)>>,
        <<W("set"), W("dio0"), Num(33000)>>, <<W("set"), W("dio"), Num(21000)>>,
        <<W("set"), W("dio1"), Num(34000)>>, <<W("set"), W("sf"), Num(10000)>>,
        Words(<<"device", "heltec">>), Words(<<"device", "megamesh">>),
        Words(<<"init">>), Words(<<"save">>), Words(<<"reboot">>)}

SetStores ==
  {EmptyStore, SavedStore,
   saveConfig(setDefaultsWroom(Call(InitGlobals, EmptyStore, 0))).nvs,
   [cfg |-> LegacyBlob(CFG_MAGIC, 1, 5, 14, 1600, FALSE), wxcfg |-> NoBlob],
   [cfg |-> LegacyBlob(CFG_MAGIC, 0, 5, 14, 0, TRUE), wxcfg |-> NoBlob]}

InitSet == Start(SetStores, {<<>>})

NextSet ==
  \/ Boot
  \/ CheckInputs(SetLines)
  \/ Receive({})
  \/ WeatherTimer
  \/ SubLoop(SetLines)
  \/ Tick

SpecSet == InitSet /\ [][NextSet]_vars

\* C27: a set command whose value is outside the range or options the node
\* gives for the key in setup_info, or is no number, leaves the field
\* without that value and is not answered with ok.
C27_SetValidates ==
  \A b \in BadSets :
    (probe.op = "cmd" /\ probe.line = b.line)
    => /\ fw.g_cfg[b.field] # b.val
       /\ \A i \in DOMAIN serial : serial[i].evt # "ok"

PinsAliased(c) ==
  /\ c.csPin = c.nssPin
  /\ c.resetPin = c.rstPin
  /\ c.busyPin = c.dio0Pin
  /\ c.dioPin = c.dio1Pin

\* C28: in every state the two names of each pin hold the same value:
\* csPin = nssPin, resetPin = rstPin, busyPin = dio0Pin, dioPin = dio1Pin.
C28_PinsAliased == PinsAliased(fw.g_cfg)

\* the pin was set under its second name on a configuration that came from
\* a blob of the legacy layout
C28_Witness ==
  /\ probe.op = "cmd"
  /\ probe.line = <<W("set"), W("dio0"), Num(33000)>>
  /\ nvs.cfg.len = LegacySize
  /\ fw.g_cfg.busyPin = 33
  /\ fw.g_cfg.dio0Pin = 33
  /\ fw.g_cfg.deviceType = 1


(***************************************************************************)
(* The transmit counter, over sends from commands and from reception, with *)
(* the driver and the cipher failing or not.                               *)
(***************************************************************************)
CounterLines ==
  {<<W("send"), B([i \in 1..(MaxPayload + 1) |-> 65])>>}
  \cup {Words(<<"startmesh">>), Words(<<"mesh", "scan">>),
        Words(<<"mesh", "enc", "on">>), <<W("send"), B(<<104, 105>>)>>,
        Words(<<"reboot">>)}

\* the frames that are answered with a frame: a discovery request and a key
CounterFrames ==
  {i \in RxFrames : /\ Len(RxFrameSeq[i]) >= MinFrameLen
                    /\ RxFrameSeq[i][4] \in {1, 48}
                    /\ Sealed(SubSeq(RxFrameSeq[i], 1, Len(RxFrameSeq[i]) - 2))
                       = RxFrameSeq[i]}

NextCounter ==
  \/ Boot
  \/ CheckInputs(CounterLines)
  \/ Receive(CounterFrames)
  \/ WeatherTimer

InitCounter == Start({SavedStore}, {<<>>})

SpecCounter == InitCounter /\ [][NextCounter]_vars

RECURSIVE Plus32(_, _)
Plus32(x, n) == IF n = 0 THEN x ELSE Plus32(Inc32(x), n - 1)

\* the counter field of a frame handed to the radio
CounterOf(frame) == U32At(frame, 9)

\* C29: the counter is 1 after a restart; the frames a step hands to the
\* radio carry the counter values from the one before the step upwards,
\* one apart, whatever the driver answered, and the counter after the step
\* is the one before it plus the number of frames handed over, so that a
\* step that hands over none leaves it unchanged.
C29_CounterMonotonic ==
  /\ probe.restart => fw.g_meshTxCounter = Word32(0, 1)
  /\ ~probe.restart =>
       /\ \A i \in DOMAIN air :
            CounterOf(air[i]) = Plus32(probe.pre.txCounter, i - 1)
       /\ fw.g_meshTxCounter = Plus32(probe.pre.txCounter, Len(air))

\* a send command handed a frame to the radio after an earlier frame, and
\* the driver reported failure
C29_Witness ==
  /\ probe.op = "cmd"
  /\ probe.line = <<W("send"), B(<<104, 105>>)>>
  /\ Len(air) = 1
  /\ \E i \in DOMAIN serial : serial[i].evt = "msg_tx_err"
  /\ probe.pre.txCounter.lo > 1
  /\ fw.g_meshTxCounter = Inc32(probe.pre.txCounter)

\* a frame was sent from inside reception after an earlier frame
C29_SentFromReception ==
  /\ probe.op = "rx"
  /\ Len(air) = 1
  /\ probe.pre.txCounter.lo > 1

(***************************************************************************)
(* Properties of the command dispatcher, under Spec.                       *)
(***************************************************************************)
\* C4: every handled command line has produced exactly one notification
\* when handleCommand returns.
C4_OneNotePerCommand == probe.op = "cmd" => probe.cmdNotes = 1

\* C5: no command line is met with silence: handleCommand has produced at
\* least one notification when it returns.
C5_NeverSilent == probe.op = "cmd" => probe.cmdNotes >= 1

StoredIsCurrent == nvs.cfg = [len |-> CfgSize, data |-> fw.g_cfg]

Emitted(evt) == \E i \in DOMAIN serial : serial[i].evt = evt

\* C11: after a save command has been handled, in setup mode or outside
\* it, the stored configuration blob equals the current configuration and
\* cfg_saved has been emitted.
C11_SavePersists ==
  (/\ probe.op = "cmd"
   /\ probe.line = Words(<<"save">>)
   /\ ~probe.restart)
  => (StoredIsCurrent /\ Emitted("cfg_saved"))


\* the last n notifications of the call just made
LastNotes(n) ==
  IF Len(serial) < n THEN <<>>
  ELSE [i \in 1..n |-> serial[Len(serial) - n + i].evt]

\* C19: when startConfigMode has left its loop, the configuration blob in
\* flash is the current configuration, g_configSaved is set, cfg_saved and
\* config_done were emitted, the mesh start ran while g_setupMode was still
\* set, and the node is out of setup mode with g_meshRunning set and
\* mesh_started emitted last.
C19_LeaveSavesAndStarts ==
  probe.left
  => /\ StoredIsCurrent
     /\ fw.g_configSaved
     /\ probe.startInSetup
     /\ ~fw.g_setupMode
     /\ fw.g_radioReady
     /\ fw.g_meshRunning
     /\ LastNotes(3) = <<"cfg_saved", "config_done", "mesh_started">>

\* setup mode entered at first boot was left with something new to store
C19_Witness ==
  /\ probe.left
  /\ probe.pre.setup
  /\ probe.stored
  /\ ~fw.g_setupMode
  /\ fw.g_meshRunning


(***************************************************************************)
(* The send commands, and sendMeshPacket called with payloads up to and    *)
(* past the limit.                                                         *)
(***************************************************************************)
\* one byte more than a frame takes
OverPayload == [i \in 1..(MaxPayload + 1) |-> 65]

\* send and sendto lines with a payload past the limit
OversizeLines ==
  {<<W("send"), B(OverPayload)>>,
   <<W("sendto"), Num(46534000), B(OverPayload)>>}

\* send and sendto lines with nothing after the command word or the
\* destination: what trim() leaves of a line whose payload is blank
BlankLines == {Words(<<"send">>), <<W("sendto"), Num(46534000)>>}

SendLines ==
  OversizeLines \cup BlankLines
  \cup {Words(<<"startmesh">>), Words(<<"mesh", "enc", "on">>),
        <<W("send"), B(<<104, 105>>)>>,
        <<W("sendto"), Num(46534000), B(LongPayload)>>}

InitSend ==
  Start({SavedStore},
        {CipherStart(DefaultKey, s, p, e, TRUE, t) :
           s \in CodecStamps, p \in {<<>>, LongPayload, OverPayload},
           e \in BOOLEAN, t \in {1, 16, 32}})

NextSend ==
  \/ Boot
  \/ CheckInputs(SendLines)
  \/ Receive({})
  \/ WeatherTimer
  \/ Tick
  \/ SendPacket

SpecSend == InitSend /\ [][NextSend]_vars

\* the command just handled sent no frame and left the counter alone
NothingSent ==
  /\ air = <<>>
  /\ fw.g_meshTxCounter = probe.pre.txCounter

\* sendMeshPacket given more than 120 bytes returned false, sent no frame
\* and left the counter alone
OversizePacketRefused ==
  (io.stage = "sent" /\ Len(io.payload) > MaxPayload)
  => (~io.sent.ret /\ io.sent.air = <<>> /\ io.sent.ctr = io.ctr)

\* C20 as stated: a send or sendto command whose trimmed payload is empty
\* or longer than 120 bytes transmits nothing, leaves the transmit counter
\* unchanged and is answered with msg_tx_err; sendMeshPacket given more
\* than 120 bytes transmits nothing and leaves the counter unchanged.
C20_BadPayloadAnsweredTxErr ==
  /\ (probe.op = "cmd" /\ probe.line \in OversizeLines \cup BlankLines)
       => (NothingSent /\ serial = <<Note("msg_tx_err", 0)>>)
  /\ OversizePacketRefused

\* C20 (amended): a send or sendto command whose payload is longer than 120
\* bytes transmits nothing, leaves the transmit counter unchanged and is
\* answered with msg_tx_err; one whose payload is blank transmits nothing,
\* leaves the counter unchanged and is answered with unknown_cmd, the line
\* being trimmed before the command word is looked for; sendMeshPacket
\* given more than 120 bytes transmits nothing and leaves the counter
\* unchanged.
C20_BadPayloadNeverSent ==
  /\ (probe.op = "cmd" /\ probe.line \in OversizeLines)
       => (NothingSent /\ serial = <<Note("msg_tx_err", 0)>>)
  /\ (probe.op = "cmd" /\ probe.line \in BlankLines)
       => (NothingSent /\ serial = <<Note("unknown_cmd", 0)>>)
  /\ OversizePacketRefused

\* an oversized send arrived with the mesh running, and sendMeshPacket was
\* called with 121 bytes
C20_Witness ==
  /\ probe.op = "cmd"
  /\ probe.line \in OversizeLines
  /\ probe.pre.running
  /\ probe.pre.ready
  /\ serial = <<Note("msg_tx_err", 0)>>
  /\ io.stage = "sent"
  /\ Len(io.payload) = MaxPayload + 1
  /\ ~io.sent.ret


(***************************************************************************)
(* The key commands, the key-exchange frames, save and reboot.             *)
(***************************************************************************)
KeyLines ==
  {Words(<<"startmesh">>), Words(<<"mesh", "keygen">>),
   <<W("mesh"), W("key"), B(Fill(32, 97))>>, Words(<<"save">>),
   Words(<<"init">>), Words(<<"reboot">>)}

\* the key-exchange frames of RxFrameSeq: one with a key, one without
KeyFrames == {4, 5}

NextKey ==
  \/ Boot
  \/ CheckInputs(KeyLines)
  \/ Receive(KeyFrames)
  \/ WeatherTimer
  \/ SubLoop(KeyLines)
  \/ Tick

SpecKey == Init /\ [][NextKey]_vars

\* the blob names and fields flash can hold
StoreShape ==
  /\ DOMAIN nvs = {"cfg", "wxcfg"}
  /\ nvs.cfg.len # 0 => DOMAIN nvs.cfg.data = DOMAIN ZeroCfg
  /\ nvs.wxcfg.len # 0
       => DOMAIN nvs.wxcfg.data
            = {"magic", "weatherMode", "weatherIntervalMs", "sensorCount",
               "sensors"}

\* C21: flash holds the configuration and the weather settings and nothing
\* of the mesh key, and once a restart has been made, and when setup() has
\* run after it, g_meshKey is the built-in default whatever key commands
\* and key-exchange frames came before.
C21_KeyNotPersisted ==
  /\ StoreShape
  /\ probe.restart => fw.g_meshKey = DefaultKey
  /\ probe.op = "boot" => fw.g_meshKey = DefaultKey

\* a node whose key had been replaced was restarted
C21_Witness ==
  /\ probe.restart
  /\ probe.pre.key # DefaultKey
  /\ fw.g_meshKey = DefaultKey


(***************************************************************************)
(* Discovery: mesh scan, the discovery-response of RxFrameSeq, and frames  *)
(* of other nodes that fill the peer table.                                *)
(***************************************************************************)
DiscoveryLines == {Words(<<"mesh", "scan">>)}

\* the discovery-response of RxFrameSeq and the node that sent it
ResponseFrame == CHOOSE i \in DOMAIN RxFrameSeq : RxFrameSeq[i][4] = 2
ResponderId == ParseFrame(RxFrameSeq[ResponseFrame],
                          Len(RxFrameSeq[ResponseFrame])).src

\* the receive step of loop() for an accepted frame of a node not heard
\* before, other than the responder: what it does to the peer table.  The
\* other nodes are heard before the responder is and before the first tick.
Heard ==
  /\ phase = "rx"
  /\ task.main = NoLine
  /\ fw.g_meshRunning /\ fw.g_radioReady /\ fw.g_radio
  /\ fw.g_peerCount < MAX_PEERS
  /\ PeerSlot(fw, ResponderId) = 0
  /\ used.rx = 0
  /\ clock = 0
  /\ \E m \in {updatePeer(Call(fw, nvs, clock), 1000 + fw.g_peerCount)} :
       /\ Done(m, "wx")
       /\ probe' = Probe(m, "peer", NoLine, 0, RxBefore, AccBefore)
  /\ UNCHANGED <<clock, blePhase, used, task, io>>

NextDiscovery ==
  \/ Boot
  \/ CheckInputs(DiscoveryLines)
  \/ Receive({ResponseFrame})
  \/ Heard
  \/ WeatherTimer
  \/ Tick

InitDiscovery == Start({SavedStore}, {<<>>})

SpecDiscovery == InitDiscovery /\ [][NextDiscovery]_vars

\* the discovery-response has just been processed by handleMeshFrame
ResponseProcessed ==
  /\ probe.op = "rx"
  /\ probe.rxNow = ResponseFrame
  /\ probe.accepted

\* the responder is in the part of the table sendPeerList lists, with the
\* time of this receipt
ResponderListedNow ==
  /\ PeerSlot(fw, ResponderId) # 0
  /\ fw.g_peers[PeerSlot(fw, ResponderId)].lastSeenMs = probe.now

\* C22 as stated: once the discovery-response of node X has been
\* processed, X is in the peer list with an age counted from this receipt
\* and peer_found for X was emitted.
C22_ResponderListed ==
  ResponseProcessed
  => /\ ResponderListedNow
     /\ serial = <<Note("rx", Len(RxFrameSeq[ResponseFrame])),
                   Note("peer_found", ResponderId)>>

\* C22 (amended): once the discovery-response of node X has been processed,
\* peer_found for X was emitted, and X is in the peer list with an age
\* counted from this receipt unless the table already held 16 other nodes,
\* in which case the table is left as it was and X is not listed.
C22_ResponderListedUnlessFull ==
  ResponseProcessed
  => /\ serial = <<Note("rx", Len(RxFrameSeq[ResponseFrame])),
                   Note("peer_found", ResponderId)>>
     /\ \/ ResponderListedNow
        \/ /\ fw.g_peerCount = MAX_PEERS
           /\ probe.tableSame
           /\ PeerSlot(fw, ResponderId) = 0

\* the response of a node heard before arrived later and renewed its time
C22_Witness ==
  /\ ResponseProcessed
  /\ probe.now > 0
  /\ ~probe.tableSame
  /\ fw.g_peerCount = 1
  /\ ResponderListedNow


(***************************************************************************)
(* sendMsg on the bytes of a line.                                         *)
(***************************************************************************)
LineLens ==
  {0, 1, 2, BleChunk - 1, BleChunk, BleChunk + 1, 2 * BleChunk - 1,
   2 * BleChunk, 2 * BleChunk + 1, 3 * BleChunk, 3 * BleChunk + 1}

\* a line of n bytes, no two neighbours alike
LineOf(n, first) == [i \in 1..n |-> 32 + ((first + i * 7) % 95)]

InitChunks ==
  Start({EmptyStore},
        {[stage |-> "in", line |-> LineOf(n, c), bt |-> b,
          out |-> [serial |-> <<>>, dyn |-> <<>>, base |-> <<>>]] :
           n \in LineLens, c \in 0..2, b \in BOOLEAN})

SendLine ==
  /\ io.stage = "in"
  /\ io' = [io EXCEPT !.stage = "sent",
                      !.out = sendMsgBytes(io.bt, io.line)]
  /\ UNCHANGED <<fw, nvs, clock, phase, blePhase, serial, ble, air, probe,
                 used, task>>

NextChunks == SendLine

SpecChunks == InitChunks /\ [][NextChunks]_vars

RECURSIVE Joined(_)
Joined(chunks) ==
  IF chunks = <<>> THEN <<>> ELSE Head(chunks) \o Joined(Tail(chunks))

\* chunks of 1 to 180 bytes that put together are the line
ChunksOf(chunks, line) ==
  /\ \A i \in DOMAIN chunks : Len(chunks[i]) \in 1..BleChunk
  /\ Joined(chunks) = line

\* C23: sendMsg writes the whole line to the serial port whether or not
\* Bluetooth is active, and when it is active each TX characteristic is
\* notified chunks of at most 180 bytes, none empty, that put together in
\* order are the line.
C23_ChunksMakeLine ==
  io.stage = "sent"
  => /\ SubSeq(io.out.serial, 1, Len(io.line)) = io.line
     /\ Len(io.out.serial) = Len(io.line) + 2
     /\ io.bt => /\ ChunksOf(io.out.dyn, io.line)
                 /\ ChunksOf(io.out.base, io.line)

\* a line of two full chunks and one byte more went out over Bluetooth
C23_Witness ==
  /\ io.stage = "sent"
  /\ io.bt
  /\ Len(io.line) = 2 * BleChunk + 1
  /\ Len(io.out.dyn) = 3
  /\ Len(io.out.dyn[3]) = 1


(***************************************************************************)
(* The dedup ring on its own: isDuplicate called with a checksum that      *)
(* comes back, with checksums never seen before, and with 0.               *)
(***************************************************************************)
\* the checksum that comes back: that of a buffer of one byte
FirstCrc == crc16_ccitt(<<77>>, 1)

\* io.stored counts the checksums written to the ring, io.since those
\* written after the last write of FirstCrc (-1: it was never written)
DupCrcs ==
  {FirstCrc, 100 + io.stored} \cup (IF io.calls < 2 THEN {0} ELSE {})

InitDedup ==
  Start({EmptyStore},
        {[calls |-> 0, crc |-> 0, ret |-> FALSE, stored |-> 0, since |-> -1,
          sinceBefore |-> -1, headBefore |-> 0,
          cacheBefore |-> InitGlobals.g_dupCache]})

DupCall ==
  /\ io.calls < MaxDupCalls
  /\ \E crc \in DupCrcs :
       \E m \in {isDuplicate(Call(fw, nvs, clock), crc)} :
         /\ fw' = Globals(m)
         /\ probe' = Probe(m, "dup", NoLine, 0, 0, FALSE)
         /\ io' = [calls |-> io.calls + 1, crc |-> crc, ret |-> m.ret,
                   stored |-> IF m.g_dupCache # fw.g_dupCache
                                 \/ m.g_dupHead # fw.g_dupHead
                              THEN io.stored + 1 ELSE io.stored,
                   since |-> IF m.g_dupHead = fw.g_dupHead THEN io.since
                             ELSE IF crc = FirstCrc THEN 0
                             ELSE IF io.since < 0 THEN io.since
                             ELSE io.since + 1,
                   sinceBefore |-> io.since,
                   headBefore |-> fw.g_dupHead,
                   cacheBefore |-> fw.g_dupCache]
  /\ UNCHANGED <<nvs, clock, phase, blePhase, serial, ble, air, used, task>>

NextDedup == DupCall

SpecDedup == InitDedup /\ [][NextDedup]_vars

\* the call just made wrote its checksum at the ring position and moved
\* the position on by one, back to 0 after the last slot
DupStored ==
  /\ fw.g_dupCache = [io.cacheBefore EXCEPT ![io.headBefore + 1] = io.crc]
  /\ fw.g_dupHead = (io.headBefore + 1) % DUP_CACHE_SIZE

\* C24 as stated: every call of isDuplicate writes the checksum at the ring
\* position and advances the position, match or no match.
C24_AlwaysInserts ==
  io.calls > 0 => DupStored

\* C24 (amended): isDuplicate answers true exactly when the checksum is not
\* 0 and is in the ring; then it writes nothing and the ring position
\* stays; otherwise it writes the checksum at the ring position and
\* advances it.  So a checksum is remembered until 24 more checksums have
\* been written, which takes 24 calls or more.
C24_InsertsOnMiss ==
  io.calls > 0
  => /\ io.ret <=> (io.crc # 0 /\ \E i \in 1..DUP_CACHE_SIZE :
                                    io.cacheBefore[i] = io.crc)
     /\ io.ret => (fw.g_dupCache = io.cacheBefore
                   /\ fw.g_dupHead = io.headBefore)
     /\ ~io.ret => DupStored
     /\ io.crc = FirstCrc
          => (io.ret <=> io.sinceBefore \in 0..(DUP_CACHE_SIZE - 1))

\* the checksum was still found more than 24 calls after it was written
C24_Witness ==
  /\ io.crc = FirstCrc
  /\ io.ret
  /\ io.sinceBefore = DUP_CACHE_SIZE - 1
  /\ io.calls > DUP_CACHE_SIZE + 2


(***************************************************************************)
(* The setup sub-loop of the main task, polled again and again, with the   *)
(* Bluetooth task handling lines of its own in between.                    *)
(***************************************************************************)
NextPolling ==
  \/ Boot
  \/ CheckInputs(SetupLines)
  \/ Receive({})
  \/ WeatherTimer
  \/ SubLoop(SetupLines)
  \/ Tick
  \/ BleBegin
  \/ BleEnd
  \/ BleSub

\* the while (true) of startConfigMode goes round for as long as it is in it
SpecPolling ==
  Init /\ [][NextPolling]_vars /\ WF_vars(SubLoop(SetupLines))

\* the main task is inside the sub-loop of startConfigMode
InSetup == phase \in {"sub_boot", "sub_loop"}

\* the condition of the break
SetupGuard == fw.g_setupSaveRequested /\ fw.g_radioReady

C31_StatusSent ==
  /\ InSetup
  /\ probe.op = "sub"
  /\ clock = PromptMs
  /\ fw.lastPrompt = clock
  /\ fw.g_setupSaveRequested
  /\ ~fw.g_radioReady
  /\ \E i \in DOMAIN serial : serial[i].evt = "cfg_status"


(***************************************************************************)
(* Frames for this node, for everyone and for another node.                *)
(***************************************************************************)
\* the frames that pass the checks of the frame format and are a discovery
\* request, a message or a key, whatever their destination
AddrFrames ==
  {i \in RxFrames : /\ RxParsed(i).ok
                    /\ RxParsed(i).payloadLen < MaxPayload
                    /\ RxParsed(i).type \in {1, 32, 48}}

AddrLines == {Words(<<"startmesh">>), Words(<<"mesh", "peers">>)}

NextAddr ==
  \/ Boot
  \/ CheckInputs(AddrLines)
  \/ Receive(AddrFrames)
  \/ WeatherTimer

InitAddr == Start({SavedStore}, {<<>>})

SpecAddr == InitAddr /\ [][NextAddr]_vars

\* the delivered frame passed the checks of the frame format and is for
\* another node
ForAnotherNode ==
  /\ probe.op = "rx"
  /\ RxParsed(probe.rxNow).ok
  /\ RxParsed(probe.rxNow).dst \notin {BroadcastId, fw.g_nodeId}

DecodedEvents ==
  {"peer_found", "msg_rx", "weather_rx", "mesh_key_rx", "mesh_key_rx_err",
   "mesh_key_ack", "mesh_rx"}

\* C32: a received valid frame whose destination is neither 0xFFFF nor the
\* id of this node changes neither the peer table nor the mesh key, sends
\* nothing and raises none of the notifications of a decoded frame.
C32_AddressFilter ==
  ForAnotherNode
  => /\ probe.tableSame
     /\ probe.peerCalls = 0
     /\ probe.keySets = 0
     /\ fw.g_meshKey = probe.pre.key
     /\ air = <<>>
     /\ \A i \in DOMAIN serial : serial[i].evt \notin DecodedEvents

\* a key frame for another node came first time, after a frame from the
\* same source had put it in the peer table
C32_Witness ==
  /\ ForAnotherNode
  /\ RxParsed(probe.rxNow).type = 48
  /\ fw.g_peerCount = 1
  /\ serial = <<Note("rx", Len(RxFrameSeq[probe.rxNow]))>>


(***************************************************************************)
(* The weather interval: the commands that set it and the blobs it is      *)
(* loaded from.                                                            *)
(***************************************************************************)
\* interval values in thousandths: nothing, below and at the floor, above
\* it, below zero
IntervalTexts ==
  {Num(0), Num((MinWeatherMs - 1) * 1000), Num(MinWeatherMs * 1000),
   Num(60000000), Num(0 - 5000), W("abc")}

WeatherLines ==
  {<<W("set"), W(k), v>> : k \in {"weather_interval", "wxint"},
                           v \in IntervalTexts}
  \cup {<<W("weather"), W("interval"), v>> : v \in IntervalTexts}
  \cup {Words(<<"save">>), Words(<<"reboot">>)}

\* flash with a weather blob of the given interval beside a configuration
WeatherStore(ms) ==
  saveConfig([setDefaultsHeltec(Call(InitGlobals, EmptyStore, 0))
              EXCEPT !.g_weatherIntervalMs = ms]).nvs

WeatherStores ==
  {EmptyStore}
  \cup {WeatherStore(ms) : ms \in {0, MinWeatherMs - 1, MinWeatherMs, 60000}}

InitWeather == Start(WeatherStores, {<<>>})

NextWeather ==
  \/ Boot
  \/ CheckInputs(WeatherLines)
  \/ Receive({})
  \/ WeatherTimer
  \/ SubLoop(WeatherLines)

SpecWeather == InitWeather /\ [][NextWeather]_vars

\* C33: in every state the weather interval is at least 500 ms.
C33_IntervalAtLeastFloor == fw.g_weatherIntervalMs >= MinWeatherMs

\* an interval below the floor was given by command, or loaded from a blob
\* that holds one, and the interval is the floor
C33_Witness ==
  /\ fw.g_weatherIntervalMs = MinWeatherMs
  /\ \/ /\ probe.op = "cmd"
        /\ probe.line = <<W("weather"), W("interval"), Num(0)>>
     \/ /\ probe.op = "boot"
        /\ nvs.wxcfg.len = WxSize
        /\ nvs.wxcfg.data.weatherIntervalMs < MinWeatherMs


(***************************************************************************)
(* The configuration and the radio, under Spec.                            *)
(***************************************************************************)
\* C34: whenever the radio is ready, the pins and radio parameters of the
\* configuration are those the last successful begin() was called with,
\* and the configuration written on leaving setup is such a one.
C34_ReadyMeansCurrentConfig ==
  /\ fw.g_radioReady => BeginArgs(fw.g_cfg) = fw.begun
  /\ probe.left => BeginArgs(nvs.cfg.data) = fw.begun


(***************************************************************************)
(* Boots from what saveConfig wrote.                                       *)
(***************************************************************************)
\* flash as saveConfig leaves it for the defaults of either board, as they
\* are, with the chip select and the voltage changed, or after bt off
SavedCfgs ==
  {[c EXCEPT !.csPin = cs, !.nssPin = cs, !.tcxoVoltage = t,
             !.btEnabled = bt] :
     c \in {HeltecCfg(CFG_MAGIC), WroomCfg(CFG_MAGIC)}, cs \in {4, 8},
     t \in {0, 1600}, bt \in BOOLEAN}

RoundTripStores ==
  {saveConfig([Call(InitGlobals, EmptyStore, 0) EXCEPT !.g_cfg = c]).nvs :
     c \in SavedCfgs}

RoundTripLines ==
  {<<W("set"), W("cs"), Num(4000)>>, Words(<<"bt", "off">>),
   Words(<<"device", "megamesh">>), Words(<<"save">>), Words(<<"reboot">>)}

InitRoundTrip == Start(RoundTripStores, {<<>>})

NextRoundTrip ==
  \/ Boot
  \/ CheckInputs(RoundTripLines)
  \/ Receive({})
  \/ WeatherTimer

SpecRoundTrip == InitRoundTrip /\ [][NextRoundTrip]_vars

\* setup() has just run on a blob that saveConfig wrote
BootedFromSaved ==
  /\ probe.op = "boot"
  /\ nvs.cfg.len = CfgSize
  /\ nvs.cfg.data.magic = CFG_MAGIC

HeltecFields ==
  {"csPin", "resetPin", "busyPin", "dioPin", "sclkPin", "misoPin", "mosiPin",
   "nssPin", "rstPin", "dio0Pin", "dio1Pin", "tcxoVoltage"}

KeyExchangeFrames ==
  {i \in RxFrames : RxParsed(i).ok /\ RxParsed(i).type = 48}

\* mesh key with a text that is no key
BadKeyLines ==
  {<<W("mesh"), W("key"), B(<<122, 122>>)>>,
   <<W("mesh"), W("key"), B(Fill(31, 97))>>}

KeyExchangeLines ==
  BadKeyLines
  \cup {Words(<<"startmesh">>), <<W("mesh"), W("key"), B(Fill(32, 97))>>}

NextKeyExchange ==
  \/ Boot
  \/ CheckInputs(KeyExchangeLines)
  \/ Receive(KeyExchangeFrames)
  \/ WeatherTimer

InitKeyExchange == Start({SavedStore}, {<<>>})

SpecKeyExchange == InitKeyExchange /\ [][NextKeyExchange]_vars

\* digits and the letters a to f in either case
HexChars == (48..57) \cup (65..70) \cup (97..102)

Is32Hex(t) == Len(t) = 32 /\ \A i \in 1..32 : t[i] \in HexChars

\* the value of two hexadecimal digits
ByteOf(hi, lo) ==
  LET v(c) == IF c <= 57 THEN c - 48 ELSE IF c <= 70 THEN c - 55 ELSE c - 87
  IN v(hi) * 16 + v(lo)

\* a key frame got past the checks of handleMeshFrame and the dedup ring
KeyFrameHandled ==
  /\ probe.op = "rx"
  /\ probe.accepted
  /\ RxParsed(probe.rxNow).type = 48

\* the text of the handled frame after "KEY:", empty when it starts
\* otherwise
KeyTextNow ==
  LET p == RxParsed(probe.rxNow).payload
  IN IF StartsWith(p, Txt_KEY) THEN SubSeqFrom(p, 5) ELSE <<>>

\* the key was set from the 32 digits t and one ack was sent to the source
KeySetAndAcked(t) ==
  /\ fw.g_meshKey = [i \in 1..16 |-> ByteOf(t[2 * i - 1], t[2 * i])]
  /\ Len(air) = 1
  /\ ParseFrame(air[1], Len(air[1])).ok
  /\ ParseFrame(air[1], Len(air[1])).type = 49
  /\ ParseFrame(air[1], Len(air[1])).dst = RxParsed(probe.rxNow).src
  /\ \E i \in DOMAIN serial : serial[i].evt = "mesh_key_rx"
  /\ \A i \in DOMAIN serial : serial[i].evt # "mesh_key_rx_err"

KeyRefused ==
  /\ fw.g_meshKey = probe.pre.key
  /\ air = <<>>
  /\ \E i \in DOMAIN serial : serial[i].evt = "mesh_key_rx_err"

\* mesh key with a text that is no key leaves the key and reports an error
BadKeyLineRefused ==
  (probe.op = "cmd" /\ probe.line \in BadKeyLines)
  => (fw.g_meshKey = probe.pre.key /\ serial = <<Note("radio_err", -910)>>)

\* C36 as stated: a handled key frame sets the key and is acked once when
\* its payload is KEY: followed by exactly 32 hexadecimal digits, and
\* otherwise leaves the key, sends nothing and raises mesh_key_rx_err.
C36_KeyOnlyFromExactText ==
  /\ KeyFrameHandled
       => IF Is32Hex(KeyTextNow) THEN KeySetAndAcked(KeyTextNow)
          ELSE KeyRefused
  /\ BadKeyLineRefused

\* what parseHexKey16 reads the 32 digits from: the text without the blanks
\* around it and without a leading 0x or 0X
KeyDigits(t) ==
  LET s == Trim(t)
  IN IF Len(s) = 34 /\ s[1] = 48 /\ s[2] \in {120, 88} THEN SubSeqFrom(s, 3)
     ELSE s

\* C36 (amended): a handled key frame sets the key and is acked once when
\* the text after KEY:, without blanks around it and without a leading 0x
\* or 0X, is 32 hexadecimal digits, and otherwise leaves the key, sends
\* nothing and raises mesh_key_rx_err; mesh key with a text that is no key
\* leaves the key and reports an error.
C36_KeyFromTrimmedText ==
  /\ KeyFrameHandled
       => IF Is32Hex(KeyDigits(KeyTextNow))
          THEN KeySetAndAcked(KeyDigits(KeyTextNow))
          ELSE KeyRefused
  /\ BadKeyLineRefused

\* a key came with 0x before its digits and a blank after them, the key
\* was set and the ack sent
C36_Witness ==
  /\ KeyFrameHandled
  /\ ~Is32Hex(KeyTextNow)
  /\ Is32Hex(KeyDigits(KeyTextNow))
  /\ fw.g_meshKey # probe.pre.key
  /\ Len(air) = 1


(***************************************************************************)
(* Frames sent from inside reception, and what the node they are for makes *)
(* of them.                                                                *)
(***************************************************************************)
\* a node of the same firmware with the given id, the mesh running, that
\* has not seen the frame before
NodeWithId(id) ==
  [fw EXCEPT !.g_nodeId = id, !.g_dupCache = InitGlobals.g_dupCache,
             !.g_dupHead = InitGlobals.g_dupHead]

\* the frames the node a frame is addressed to hands to its radio when it
\* receives it, whatever its hardware answers
AnswersTo(frame) ==
  UNION {LET r == handleIncoming(
                    Call(NodeWithId(ParseFrame(frame, Len(frame)).dst), nvs,
                         clock),
                    frame, Len(frame), env)
         IN {r.air[i] : i \in DOMAIN r.air} : env \in Envs}

\* the frames that pass the checks of the frame format, of every type
ReplyFrames ==
  {i \in RxFrames : RxParsed(i).ok /\ RxParsed(i).payloadLen < MaxPayload}

ReplyLines == {Words(<<"startmesh">>), Words(<<"mesh", "enc", "on">>)}

NextReplies ==
  \/ Boot
  \/ CheckInputs(ReplyLines)
  \/ Receive(ReplyFrames)
  \/ WeatherTimer

InitReplies == Start({SavedStore}, {<<>>})

SpecReplies == InitReplies /\ [][NextReplies]_vars

\* one frame of the given type went out, addressed to the source of the
\* frame just handled
OneAnswer(type) ==
  /\ Len(air) = 1
  /\ ParseFrame(air[1], Len(air[1])).ok
  /\ ParseFrame(air[1], Len(air[1])).type = type
  /\ ParseFrame(air[1], Len(air[1])).dst = RxParsed(probe.rxNow).src
  /\ AnswersTo(air[1]) = {}

\* C37: a handled discovery request is answered with exactly one discovery
\* response to the requester, a handled key exchange with a valid key with
\* exactly one ack to its source, any other handled frame with no frame at
\* all, and neither answer is answered by the node that receives it.
C37_NoReplyLoops ==
  (probe.op = "rx" /\ probe.accepted /\ ~probe.restart)
  => IF RxParsed(probe.rxNow).type = 1 THEN OneAnswer(2)
     ELSE IF RxParsed(probe.rxNow).type = 48 /\ probe.keySets = 1
     THEN OneAnswer(49)
     ELSE air = <<>>

\* a discovery request was answered, and the requester has nothing to say
\* to the answer
C37_Witness ==
  /\ probe.op = "rx"
  /\ probe.accepted
  /\ RxParsed(probe.rxNow).type = 1
  /\ Len(air) = 1
  /\ ParseFrame(air[1], Len(air[1])).type = 2
  /\ AnswersTo(air[1]) = {}


(***************************************************************************)
(* The browser's BLE service (services/bluetoothService.ts): reassembly of *)
(* the notified chunks into JSON objects.  The service's fields are kept   *)
(* in io.                                                                  *)
(***************************************************************************)
\* the characters the scanner and the JSON grammar tell apart
Ch ==
  [lbrace |-> 123, rbrace |-> 125, quote |-> 34, backslash |-> 92,
   colon |-> 58, comma |-> 44, a |-> 97, one |-> 49,
   lead |-> 195, cont |-> 169, replacement |-> 65533]

\* the buffer is dropped when it holds more characters than this
RxBufferMax == 4096

\* t[i], or 0 past either end
At(t, i) == IF i \in 1..Len(t) THEN t[i] ELSE 0

\* new TextDecoder().decode(value): UTF-8 to UTF-16 code units, each call on
\* its own (no stream option): a lead byte whose continuation byte is not in
\* the same value, and a continuation byte without its lead, become U+FFFD
RECURSIVE decode(_)
decode(value) ==
  IF value = <<>> THEN <<>>
  ELSE IF Head(value) < 128 THEN <<Head(value)>> \o decode(Tail(value))
  ELSE IF Head(value) \in 194..223 /\ At(value, 2) \in 128..191
    THEN <<(Head(value) - 192) * 64 + (value[2] - 128)>>
         \o decode(SubSeq(value, 3, Len(value)))
  ELSE <<Ch.replacement>> \o decode(Tail(value))

\* JSON.parse on the grammar of the notifications: objects whose members
\* are strings, digits or objects, without white space.  Each operator
\* gives the index after what it read, 0 when the text is not JSON.
RECURSIVE ParseChars(_, _)
ParseChars(t, i) ==
  IF At(t, i) = Ch.quote THEN i + 1
  ELSE IF At(t, i) = Ch.backslash
    THEN IF At(t, i + 1) \in {Ch.quote, Ch.backslash}
           THEN ParseChars(t, i + 2) ELSE 0
  ELSE IF At(t, i) < 32 THEN 0
  ELSE ParseChars(t, i + 1)

ParseString(t, i) == IF At(t, i) = Ch.quote THEN ParseChars(t, i + 1) ELSE 0

RECURSIVE ParseValue(_, _)
RECURSIVE ParseMembers(_, _)
ParseMembers(t, i) ==
  Bind(ParseString(t, i), LAMBDA k :
    IF k = 0 \/ At(t, k) # Ch.colon THEN 0
    ELSE Bind(ParseValue(t, k + 1), LAMBDA v :
      IF v = 0 THEN 0
      ELSE IF At(t, v) = Ch.comma THEN ParseMembers(t, v + 1)
      ELSE IF At(t, v) = Ch.rbrace THEN v + 1
      ELSE 0))

ParseValue(t, i) ==
  IF At(t, i) = Ch.quote THEN ParseString(t, i)
  ELSE IF At(t, i) = Ch.one THEN i + 1
  ELSE IF At(t, i) = Ch.lbrace
    THEN IF At(t, i + 1) = Ch.rbrace THEN i + 2 ELSE ParseMembers(t, i + 1)
  ELSE 0

\* the value read is kept as its text, which spells it out: the grammar has
\* no white space and one spelling for each character
JSONparse(candidate) ==
  IF ParseValue(candidate, 1) = Len(candidate) + 1
    THEN [ok |-> TRUE, value |-> candidate]
    ELSE [ok |-> FALSE, value |-> <<>>]

\* the for loop of handleNotification at index i (from 0) of the buffer:
\* every object that closes at depth 0 is parsed, emitted when it parses,
\* and cut off the buffer, which is then scanned again from its start
RECURSIVE scan(_, _, _, _, _, _, _)
scan(rxBuffer, i, start, depth, inString, escape, emitted) ==
  IF i >= Len(rxBuffer) THEN [rxBuffer |-> rxBuffer, emitted |-> emitted]
  ELSE IF escape
    THEN scan(rxBuffer, i + 1, start, depth, inString, FALSE, emitted)
  ELSE IF rxBuffer[i + 1] = Ch.backslash /\ inString
    THEN scan(rxBuffer, i + 1, start, depth, inString, TRUE, emitted)
  ELSE IF rxBuffer[i + 1] = Ch.quote
    THEN scan(rxBuffer, i + 1, start, depth, ~inString, FALSE, emitted)
  ELSE IF inString
    THEN scan(rxBuffer, i + 1, start, depth, inString, FALSE, emitted)
  ELSE IF rxBuffer[i + 1] = Ch.lbrace
    THEN scan(rxBuffer, i + 1, IF depth = 0 THEN i ELSE start, depth + 1,
              FALSE, FALSE, emitted)
  ELSE IF rxBuffer[i + 1] = Ch.rbrace
    THEN IF depth - 1 = 0
           THEN Bind(JSONparse(SubSeq(rxBuffer, start + 1, i + 1)),
                  LAMBDA obj :
                    scan(SubSeq(rxBuffer, i + 2, Len(rxBuffer)), 0, start, 0,
                         FALSE, FALSE,
                         IF obj.ok THEN Append(emitted, obj.value)
                                   ELSE emitted))
           ELSE scan(rxBuffer, i + 1, start, depth - 1, FALSE, FALSE, emitted)
  ELSE scan(rxBuffer, i + 1, start, depth, FALSE, FALSE, emitted)

\* the scan of the whole buffer, then the overflow check
reassemble(rxBuffer) ==
  Bind(scan(rxBuffer, 0, 0, 0, FALSE, FALSE, <<>>), LAMBDA r :
    IF Len(r.rxBuffer) > RxBufferMax THEN [r EXCEPT !.rxBuffer = <<>>] ELSE r)

\* (a service that scans each value on its own)
handleNotificationPerValue(rxBuffer, value) == reassemble(decode(value))

\* handleNotification: the decoded value is appended to the buffer first
handleNotification(rxBuffer, value) == reassemble(rxBuffer \o decode(value))

\* notifications sent in one session
MaxNotes == 2

\* {"a":"}{"}  {"a":"\""}  {"a":{"a":1}}  {"a":"\\"}  {"a":"é"}
Notifications ==
  {<<123, 34, 97, 34, 58, 34, 125, 123, 34, 125>>,
   <<123, 34, 97, 34, 58, 34, 92, 34, 34, 125>>,
   <<123, 34, 97, 34, 58, 123, 34, 97, 34, 58, 49, 125, 125>>,
   <<123, 34, 97, 34, 58, 34, 92, 92, 34, 125>>,
   <<123, 34, 97, 34, 58, 34, 195, 169, 34, 125>>}

InitReassembly ==
  Start({EmptyStore},
        {[sent |-> <<>>, wire |-> <<>>, rxBuffer |-> <<>>, delivered |-> <<>>,
          bytewise |-> TRUE, cut |-> FALSE]})

\* the node notifies one more object: its bytes follow those not yet
\* delivered to the browser
Notified ==
  /\ Len(io.sent) < MaxNotes
  /\ \E line \in Notifications :
       io' = [io EXCEPT !.sent = Append(@, line), !.wire = @ \o line]
  /\ UNCHANGED <<fw, nvs, clock, phase, blePhase, serial, ble, air, probe,
                 used, task>>

\* characteristicvaluechanged with the next n bytes as the value
ValueChanged ==
  /\ \E n \in 1..Len(io.wire) :
       /\ n <= BleChunk
       /\ Bind(handleNotification(io.rxBuffer, SubSeq(io.wire, 1, n)),
         LAMBDA r :
           io' = [io EXCEPT
                    !.wire = SubSeq(@, n + 1, Len(@)),
                    !.rxBuffer = r.rxBuffer,
                    !.delivered = @ \o r.emitted,
                    !.bytewise = @ /\ n = 1,
                    !.cut = @ \/ (At(io.wire, n) >= 192
                                  /\ At(io.wire, n + 1) \in 128..191)])
  /\ UNCHANGED <<fw, nvs, clock, phase, blePhase, serial, ble, air, probe,
                 used, task>>

NextReassembly == Notified \/ ValueChanged

SpecReassembly == InitReassembly /\ [][NextReassembly]_vars

\* the objects notified so far, as the listeners should see them
SentObjects == [i \in DOMAIN io.sent |-> decode(io.sent[i])]

\* the listeners got the first objects sent, each once and in order, and all
\* of them once every byte has been delivered
DeliveredInOrder ==
  /\ Len(io.delivered) <= Len(io.sent)
  /\ io.delivered = SubSeq(SentObjects, 1, Len(io.delivered))
  /\ io.wire = <<>> => io.delivered = SentObjects

MaxCalls == 3
\* times the link is lost without disconnect() being called
MaxLosses == 1

\* the service after construction
NoLink ==
  [device |-> FALSE, server |-> FALSE, characteristics |-> FALSE,
   rxBuffer |-> <<>>, connected |-> FALSE, listeners |-> 0, loops |-> <<>>,
   explicit |-> FALSE, attempts |-> 0, reconnected |-> 0, disconnects |-> 0,
   calls |-> 0, losses |-> 0]

\* how an attempt to connect ends: every step succeeds, gatt.connect()
\* rejects, or the link is up and the service or a characteristic is missing
Outcomes == {"ok", "unreachable", "noservice"}

isConnected(s) == s.server /\ s.connected

cleanup(s) ==
  [s EXCEPT !.server = FALSE, !.characteristics = FALSE, !.rxBuffer = <<>>]

emitDisconnect(s) == [s EXCEPT !.disconnects = @ + 1]

\* connectGatt with that outcome: the service after it, and whether it
\* returned (ok) or threw
connectGatt(s, outcome) ==
  IF ~s.device \/ outcome = "unreachable" THEN [s |-> s, ok |-> FALSE]
  ELSE IF outcome = "noservice"
    THEN [s |-> [s EXCEPT !.server = TRUE, !.connected = TRUE], ok |-> FALSE]
  ELSE [s |-> [s EXCEPT !.server = TRUE, !.connected = TRUE,
                        !.characteristics = TRUE, !.rxBuffer = <<>>],
        ok |-> TRUE]

\* handleDisconnect up to its first await: without a device the disconnect
\* listeners are called, with one the loop starts to wait for attempt 1
handleDisconnect(s) ==
  Bind([s EXCEPT !.server = FALSE, !.characteristics = FALSE], LAMBDA s1 :
    IF ~s1.device THEN emitDisconnect(s1)
    ELSE [s1 EXCEPT !.loops = Append(@, 1)])

\* gattserverdisconnected is dispatched to the n listeners added to the device
RECURSIVE gattserverdisconnected(_, _)
gattserverdisconnected(s, n) ==
  IF n = 0 THEN s ELSE gattserverdisconnected(handleDisconnect(s), n - 1)

\* s without its i-th waiting loop
Ended(s, i) ==
  [s EXCEPT !.loops = SubSeq(@, 1, i - 1) \o SubSeq(@, i + 1, Len(@))]

\* handleDisconnect from the end of the 2 s wait of the i-th loop to its
\* next await or its return
reconnectAttempt(s, i, outcome) ==
  Bind(connectGatt([s EXCEPT !.attempts = @ + 1], outcome), LAMBDA r :
    IF r.ok THEN [Ended(r.s, i) EXCEPT !.reconnected = @ + 1]
    ELSE IF s.loops[i] < 3 THEN [r.s EXCEPT !.loops[i] = @ + 1]
    ELSE emitDisconnect(cleanup(Ended(r.s, i))))

\* connect(): the user picks the node or closes the chooser, which rejects
\* requestDevice before this.device is assigned
connect(s, picked, outcome) ==
  IF ~picked THEN cleanup(s)
  ELSE Bind(connectGatt([s EXCEPT !.device = TRUE, !.listeners = @ + 1],
                        outcome),
            LAMBDA r : IF r.ok THEN r.s ELSE cleanup(r.s))

\* disconnect(): server.disconnect() takes the link down and dispatches
\* gattserverdisconnected (Web Bluetooth, "clean up the disconnected device")
disconnect(s) ==
  cleanup(IF isConnected(s)
            THEN gattserverdisconnected([s EXCEPT !.connected = FALSE],
                                        s.listeners)
            ELSE s)

InitLink == Start({EmptyStore}, {NoLink})

Connect ==
  /\ io.calls < MaxCalls
  /\ \E picked \in BOOLEAN, outcome \in Outcomes :
       io' = [connect(io, picked, outcome) EXCEPT
                !.calls = @ + 1, !.explicit = FALSE, !.attempts = 0]
  /\ UNCHANGED <<fw, nvs, clock, phase, blePhase, serial, ble, air, probe,
                 used, task>>

Disconnect ==
  /\ io.calls < MaxCalls
  /\ io' = [disconnect(io) EXCEPT
              !.calls = @ + 1, !.explicit = TRUE, !.attempts = 0]
  /\ UNCHANGED <<fw, nvs, clock, phase, blePhase, serial, ble, air, probe,
                 used, task>>

\* the node goes out of range or is switched off
LinkLost ==
  /\ io.connected
  /\ io.losses < MaxLosses
  /\ io' = gattserverdisconnected(
             [io EXCEPT !.connected = FALSE, !.losses = @ + 1], io.listeners)
  /\ UNCHANGED <<fw, nvs, clock, phase, blePhase, serial, ble, air, probe,
                 used, task>>

\* the 2 s timer of a waiting loop fires
Timer ==
  /\ \E i \in DOMAIN io.loops, outcome \in Outcomes :
       io' = reconnectAttempt(io, i, outcome)
  /\ UNCHANGED <<fw, nvs, clock, phase, blePhase, serial, ble, air, probe,
                 used, task>>

NextLink == Connect \/ Disconnect \/ LinkLost \/ Timer

SpecLink == InitLink /\ [][NextLink]_vars

\* C39: after disconnect() and until connect() is called again no reconnect
\* attempt is made and the service stays disconnected; reconnect loops run
\* only after a link loss that disconnect() did not cause, and each ends in
\* one 'reconnected' event or one call of the disconnect listeners.
C39_DisconnectIsFinal ==
  /\ io.explicit => (io.attempts = 0 /\ io.loops = <<>> /\ ~isConnected(io))
  /\ Len(io.loops) + io.reconnected + io.disconnects <= io.losses

====
